---- MODULE Spec2Model ----
(***************************************************************************)
(* Node reservation (ironic.db.api.Connection.reserve_node/release_node),  *)
(* the TaskManager scope built on it, and the driver entry points that run *)
(* inside a task.                                                          *)
(***************************************************************************)
EXTENDS Integers, Sequences, FiniteSets, TLC

\* ------------------------------------------------------------------ bounds
NumNodes == 2       \* node records in the store
NumTags == 2        \* reservation holders (conductor hosts), one tag each
MaxAcquire == 2     \* nodes named by one acquire
MaxTime == 62       \* seconds the clock runs for

Nodes == 1..NumNodes
NodeIds == 0..NumNodes              \* id 0 matches no node
Tags == 1..NumTags
Tasks == Tags                       \* one TaskManager scope per holder
None == 0 - 1                       \* reservation = None
TagOf(t) == t                       \* the tag a task reserves with
Hosts == Tags                       \* a conductor reserves under its hostname

VARIABLES
  reservation,   \* node id -> tag holding it, or None
  last,          \* the most recent direct db api call and what it returned
  task,          \* task id -> state of its TaskManager scope
  node,          \* node id -> its driver, driver_info and properties
  call,          \* task id -> the driver call it is running, if any
  conductor,     \* hostname -> its conductor record, or NoConductor
  now            \* the clock of the store, in seconds

vars == <<reservation, last, task, node, call, conductor, now>>

\* --------------------------------------------------------------- exceptions
NoError == [type |-> "ok", host |-> None]
NodeNotFound == [type |-> "NodeNotFound", host |-> None]
NodeNotLocked == [type |-> "NodeNotLocked", host |-> None]
NodeLocked(host) == [type |-> "NodeLocked", host |-> host]

\* --------------------------------------------------------------- db api
\* reserve_node(tag, node_id) on the reservation column `res`: the outcome and
\* the column afterwards.  One call is one atomic update of the store.
\* Mutants of reserve_node: the holder is not checked; the tag is not written;
\* the holder's own tag is let through; a missing node is not reported.
reserve_node_steal(res, tag, node_id) ==
  IF node_id \notin Nodes
    THEN [err |-> NodeNotFound, res |-> res]
  ELSE [err |-> NoError, res |-> [res EXCEPT ![node_id] = tag]]

reserve_node_no_write(res, tag, node_id) ==
  IF node_id \notin Nodes
    THEN [err |-> NodeNotFound, res |-> res]
  ELSE IF res[node_id] # None
    THEN [err |-> NodeLocked(res[node_id]), res |-> res]
  ELSE [err |-> NoError, res |-> res]

reserve_node_reentrant(res, tag, node_id) ==
  IF node_id \notin Nodes
    THEN [err |-> NodeNotFound, res |-> res]
  ELSE IF res[node_id] # None /\ res[node_id] # tag
    THEN [err |-> NodeLocked(res[node_id]), res |-> res]
  ELSE [err |-> NoError, res |-> [res EXCEPT ![node_id] = tag]]

reserve_node(res, tag, node_id) ==
  IF node_id \notin Nodes
    THEN [err |-> NodeNotFound, res |-> res]
  ELSE IF res[node_id] # None
    THEN [err |-> NodeLocked(res[node_id]), res |-> res]
  ELSE [err |-> NoError, res |-> [res EXCEPT ![node_id] = tag]]

\* Mutants of release_node: any tag clears; an unreserved node is not told
\* apart from one held by another; a repeated release passes; a missing node
\* is taken for an unreserved one.
release_node_any(res, tag, node_id) ==
  IF node_id \notin Nodes
    THEN [err |-> NodeNotFound, res |-> res]
  ELSE IF res[node_id] = None
    THEN [err |-> NodeNotLocked, res |-> res]
  ELSE [err |-> NoError, res |-> [res EXCEPT ![node_id] = None]]

release_node_no_notlocked(res, tag, node_id) ==
  IF node_id \notin Nodes
    THEN [err |-> NodeNotFound, res |-> res]
  ELSE IF res[node_id] # tag
    THEN [err |-> NodeLocked(res[node_id]), res |-> res]
  ELSE [err |-> NoError, res |-> [res EXCEPT ![node_id] = None]]

release_node_idempotent(res, tag, node_id) ==
  IF node_id \notin Nodes
    THEN [err |-> NodeNotFound, res |-> res]
  ELSE IF res[node_id] = None
    THEN [err |-> NoError, res |-> res]
  ELSE IF res[node_id] # tag
    THEN [err |-> NodeLocked(res[node_id]), res |-> res]
  ELSE [err |-> NoError, res |-> [res EXCEPT ![node_id] = None]]

release_node_no_lookup(res, tag, node_id) ==
  IF node_id \notin Nodes
    THEN [err |-> NodeNotLocked, res |-> res]
  ELSE IF res[node_id] = None
    THEN [err |-> NodeNotLocked, res |-> res]
  ELSE IF res[node_id] # tag
    THEN [err |-> NodeLocked(res[node_id]), res |-> res]
  ELSE [err |-> NoError, res |-> [res EXCEPT ![node_id] = None]]

\* release_node(tag, node_id)
release_node(res, tag, node_id) ==
  IF node_id \notin Nodes
    THEN [err |-> NodeNotFound, res |-> res]
  ELSE IF res[node_id] = None
    THEN [err |-> NodeNotLocked, res |-> res]
  ELSE IF res[node_id] # tag
    THEN [err |-> NodeLocked(res[node_id]), res |-> res]
  ELSE [err |-> NoError, res |-> [res EXCEPT ![node_id] = None]]

\* The record kept of a db api call: what was asked, the holder found, the
\* outcome, and whether it directly follows a successful release of the same
\* reservation by the same tag.
Holder(res, node_id) == IF node_id \in Nodes THEN res[node_id] ELSE None

CallRecord(op, tag, node_id, r) ==
  [op |-> op, tag |-> tag, node |-> node_id,
   pre |-> Holder(reservation, node_id), err |-> r.err,
   after |-> /\ op = "release"
             /\ last.op = "release" /\ last.err = NoError
             /\ last.tag = tag /\ last.node = node_id]

NoCall ==
  [op |-> "none", tag |-> None, node |-> 0, pre |-> None,
   err |-> NoError, after |-> FALSE]

\* A conductor or test calling the db api directly.
DirectReserve(tag, node_id) ==
  LET r == reserve_node(reservation, tag, node_id) IN
    /\ reservation' = r.res
    /\ last' = CallRecord("reserve", tag, node_id, r)
    /\ UNCHANGED <<task, node, call, conductor, now>>

DirectRelease(tag, node_id) ==
  LET r == release_node(reservation, tag, node_id) IN
    /\ reservation' = r.res
    /\ last' = CallRecord("release", tag, node_id, r)
    /\ UNCHANGED <<task, node, call, conductor, now>>

\* ------------------------------------------------------------- node records
\* The row a node id finds: destroyed nodes match no row.
Row(tab, node_id) ==
  IF node_id \in Nodes /\ ~tab[node_id].deleted THEN node_id ELSE 0

\* The columns update_node is given values for.
UpdateValues ==
  {[driver_info |-> {}]}
    \cup {[reservation |-> h] : h \in Tags \cup {None}}
    \cup {[driver_info |-> {}, reservation |-> None]}

\* The row after update_node wrote `values`: the reservation column is not
\* among the columns it writes.
Updated(row, values) ==
  [f \in DOMAIN row |->
     IF f \in DOMAIN values /\ f # "reservation" THEN values[f] ELSE row[f]]

\* Mutant of update_node: a reservation among the values is written too.
update_node_writes_reservation(tab, res, node_id, values) ==
  IF Row(tab, node_id) = 0
    THEN [err |-> NodeNotFound, tab |-> tab, res |-> res]
  ELSE [err |-> NoError,
        tab |-> [tab EXCEPT ![node_id] = Updated(@, values)],
        res |-> IF "reservation" \in DOMAIN values
                  THEN [res EXCEPT ![node_id] = values.reservation]
                ELSE res]

\* update_node(node_id, values) on the node table `tab` and the reservation
\* column `res`.
update_node(tab, res, node_id, values) ==
  IF Row(tab, node_id) = 0
    THEN [err |-> NodeNotFound, tab |-> tab, res |-> res]
  ELSE [err |-> NoError,
        tab |-> [tab EXCEPT ![node_id] = Updated(@, values)],
        res |-> res]

\* Mutant of destroy_node: the reservation is not looked at.
destroy_node_unchecked(tab, res, node_id) ==
  IF Row(tab, node_id) = 0
    THEN [err |-> NodeNotFound, tab |-> tab]
  ELSE [err |-> NoError, tab |-> [tab EXCEPT ![node_id].deleted = TRUE]]

\* destroy_node(node_id): a reserved node is not destroyed.
destroy_node(tab, res, node_id) ==
  IF Row(tab, node_id) = 0
    THEN [err |-> NodeNotFound, tab |-> tab]
  ELSE IF res[node_id] # None
    THEN [err |-> NodeLocked(res[node_id]), tab |-> tab]
  ELSE [err |-> NoError, tab |-> [tab EXCEPT ![node_id].deleted = TRUE]]

\* get_node_by_id(node_id): reads the row.
get_node_by_id(tab, node_id) ==
  IF Row(tab, node_id) = 0 THEN [err |-> NodeNotFound] ELSE [err |-> NoError]

\* Calls of the db api on a store whose nodes come and go.
StoreReserve(tag, node_id) ==
  LET r == reserve_node(reservation, tag, Row(node, node_id)) IN
    /\ reservation' = r.res
    /\ last' = CallRecord("reserve", tag, node_id, r)
    /\ UNCHANGED <<task, node, call, conductor, now>>

StoreRelease(tag, node_id) ==
  LET r == release_node(reservation, tag, Row(node, node_id)) IN
    /\ reservation' = r.res
    /\ last' = CallRecord("release", tag, node_id, r)
    /\ UNCHANGED <<task, node, call, conductor, now>>

UpdateNode(node_id, values) ==
  LET r == update_node(node, reservation, node_id, values) IN
    /\ node' = r.tab
    /\ reservation' = r.res
    /\ last' = CallRecord("update_node", None, node_id, r)
    /\ UNCHANGED <<task, call, conductor, now>>

DestroyNode(node_id) ==
  LET r == destroy_node(node, reservation, node_id) IN
    /\ node' = r.tab
    /\ last' = CallRecord("destroy_node", None, node_id, r)
    /\ UNCHANGED <<reservation, task, call, conductor, now>>

GetNode(node_id) ==
  /\ last' = CallRecord("get_node", None, node_id, get_node_by_id(node, node_id))
  /\ UNCHANGED <<reservation, task, node, call, conductor, now>>

\* ------------------------------------------------------- conductor registry
ConductorAlreadyRegistered == [type |-> "ConductorAlreadyRegistered", host |-> None]
ConductorNotFound == [type |-> "ConductorNotFound", host |-> None]

DriverNames == {"seamicro", "ssh"}

\* No record under that hostname.
NoConductor == [drivers |-> {}, updated_at |-> None]

\* Each operation on the conductor table `tab` at time `at`: the outcome and
\* the table afterwards.
\* Mutant of register_conductor: a second registration replaces the record.
register_conductor_overwrite(tab, hostname, drivers, at) ==
  [err |-> NoError,
   tab |-> [tab EXCEPT ![hostname] = [drivers |-> drivers, updated_at |-> at]]]

register_conductor(tab, hostname, drivers, at) ==
  IF tab[hostname] # NoConductor
    THEN [err |-> ConductorAlreadyRegistered, tab |-> tab]
  ELSE [err |-> NoError,
        tab |-> [tab EXCEPT ![hostname] =
                   [drivers |-> drivers, updated_at |-> at]]]

unregister_conductor(tab, hostname) ==
  IF tab[hostname] = NoConductor
    THEN [err |-> ConductorNotFound, tab |-> tab]
  ELSE [err |-> NoError, tab |-> [tab EXCEPT ![hostname] = NoConductor]]

touch_conductor(tab, hostname, at) ==
  IF tab[hostname] = NoConductor
    THEN [err |-> ConductorNotFound, tab |-> tab]
  ELSE [err |-> NoError, tab |-> [tab EXCEPT ![hostname].updated_at = at]]

\* Mutants of get_active_driver_dict: a heartbeat exactly `interval` old
\* counts as stale; heartbeats are not looked at.
get_active_driver_dict_strict(tab, interval, at) ==
  [d \in DriverNames |->
     {h \in Hosts : /\ tab[h] # NoConductor
                     /\ d \in tab[h].drivers
                     /\ at - tab[h].updated_at < interval}]

get_active_driver_dict_all(tab, interval, at) ==
  [d \in DriverNames |->
     {h \in Hosts : tab[h] # NoConductor /\ d \in tab[h].drivers}]

\* get_active_driver_dict(interval) asked at time `at`: driver name -> the
\* hosts that support it and checked in no more than `interval` seconds ago.
get_active_driver_dict(tab, interval, at) ==
  [d \in DriverNames |->
     {h \in Hosts : /\ tab[h] # NoConductor
                     /\ d \in tab[h].drivers
                     /\ at - tab[h].updated_at <= interval}]

\* The record kept of a conductor call; `pre` is the time it was made at.
ConductorCall(op, hostname, r) ==
  [op |-> op, tag |-> hostname, node |-> 0, pre |-> now, err |-> r.err,
   after |-> FALSE]

RegisterConductor(hostname, drivers) ==
  LET r == register_conductor(conductor, hostname, drivers, now) IN
    /\ conductor' = r.tab
    /\ last' = ConductorCall("register_conductor", hostname, r)
    /\ UNCHANGED <<reservation, task, node, call, now>>

UnregisterConductor(hostname) ==
  LET r == unregister_conductor(conductor, hostname) IN
    /\ conductor' = r.tab
    /\ last' = ConductorCall("unregister_conductor", hostname, r)
    /\ UNCHANGED <<reservation, task, node, call, now>>

TouchConductor(hostname) ==
  LET r == touch_conductor(conductor, hostname, now) IN
    /\ conductor' = r.tab
    /\ last' = ConductorCall("touch_conductor", hostname, r)
    /\ UNCHANGED <<reservation, task, node, call, now>>

\* Time passes between two calls.
TickSteps == {30, 31}

Tick(d) ==
  /\ now + d <= MaxTime
  /\ now' = now + d
  /\ UNCHANGED <<reservation, last, task, node, call, conductor>>

\* ------------------------------------------------------------------ drivers
\* [seamicro] max_retry
max_retry == 3

POWER_ON == "power on"
POWER_OFF == "power off"
ERROR == "error"
NOSTATE == "None"

VENDOR_PASSTHRU_METHODS == {"attach_volume", "set_node_vlan_id"}

\* get_supported_boot_devices(): the keys of _BOOT_DEVICES_MAP
SupportedBootDevices == {"disk", "pxe"}

SEAMICRO_REQUIRED_PROPERTIES ==
  {"seamicro_api_endpoint", "seamicro_password", "seamicro_server_id",
   "seamicro_username"}

SSH_REQUIRED_PROPERTIES == {"ssh_address", "ssh_username", "ssh_virt_type"}

RequiredProperties(driver) ==
  IF driver = "seamicro" THEN SEAMICRO_REQUIRED_PROPERTIES
  ELSE SSH_REQUIRED_PROPERTIES

\* A node record: driver_info is given by the required keys it sets,
\* properties by the two keys the vendor methods write, and ports by whether
\* the node has a port (a MAC address) at all.  `deleted` says that the row
\* is gone from the store; what a task loaded of it stays with the task.
NewNode(driver, info) ==
  [driver |-> driver, driver_info |-> info, ports |-> TRUE,
   properties |-> [seamicro_vlan_id |-> "None", seamicro_volume_id |-> "None"],
   deleted |-> FALSE]

\* Mutant of missing_info: only one of the missing keys is reported.
missing_info_one(nd) ==
  LET missing == RequiredProperties(nd.driver) \ nd.driver_info IN
  IF missing = {} THEN {} ELSE {CHOOSE key \in missing : TRUE}

\* _parse_driver_info: the required keys that driver_info does not set.
missing_info(nd) == RequiredProperties(nd.driver) \ nd.driver_info

NoDriverCall ==
  [pc |-> "none", node |-> 0, ep |-> "", args |-> <<>>, k |-> <<>>,
   retries |-> 0, state |-> NOSTATE, issued |-> <<>>, answer |-> "",
   result |-> "", missing |-> {}, saved |-> FALSE]

\* The entry points decorated with @task_manager.require_exclusive_lock.
ExclusiveEntryPoints ==
  {<<"seamicro", "set_power_state">>, <<"seamicro", "reboot">>,
   <<"seamicro", "set_boot_device">>,
   <<"ssh", "set_power_state">>, <<"ssh", "reboot">>}

\* The entry points that command the backend or write the node.
MutatingEntryPoints ==
  ExclusiveEntryPoints \cup {<<"seamicro", "vendor_passthru">>}

\* Mutant of require_exclusive_lock: the decorator lets every task through.
require_exclusive_lock_absent(t, driver, ep) ==
  <<driver, ep>> \in ExclusiveEntryPoints /\ task[t].shared /\ FALSE

\* require_exclusive_lock: the wrapped method is not entered on a shared task.
require_exclusive_lock(t, driver, ep) ==
  <<driver, ep>> \in ExclusiveEntryPoints /\ task[t].shared

\* A call that ended with `result`.
Ended(c, result) == [c EXCEPT !.pc = "done", !.k = <<>>, !.result = result]

\* The backend operations that command the hardware.
Commands ==
  {"power_on", "power_off", "reset", "set_boot_order hd0", "set_boot_order pxe",
   "unset_untagged_vlan", "set_untagged_vlan", "volumes.create",
   "detach_volume", "attach_volume", "start_cmd", "stop_cmd"}

\* What the backend may answer to an operation.
Outcomes(op) ==
  CASE op = "get_server" ->
         {"ok", "ok_untagged_vlan", "NotFound", "ClientException"}
    [] op = "get_power_status" ->
         {POWER_ON, POWER_OFF, ERROR, "NotFound", "ClientException"}
    [] op = "pools.list" -> {"ok", "None", "empty", "ClientException"}
    [] op = "volumes.get" -> {"ironic", "other", "ClientException"}
    [] op = "save" -> {"ok"}
    [] OTHER -> {"ok", "ClientException"}

\* --- SeaMicro: Power.set_power_state, Power.reboot
\* What _power_on, _power_off and _reboot wait for, and the command they repeat.
SeaMicroTarget(c) ==
  IF c.ep = "set_power_state" THEN c.args[1] ELSE POWER_ON

\* Mutant of SeaMicroCommand: _reboot retries with power_on.
SeaMicroCommand_reboot_power_on(c) ==
  IF c.ep = "reboot" THEN "power_on"
  ELSE IF c.args[1] = POWER_ON THEN "power_on" ELSE "power_off"

SeaMicroCommand(c) ==
  IF c.ep = "reboot" THEN "reset"
  ELSE IF c.args[1] = POWER_ON THEN "power_on" ELSE "power_off"

\* Mutant of PowerResult: the state returned is not compared with pstate.
PowerResult_unchecked(state, pstate) == "ok"

\* The state a power transition returned against the state asked for.
PowerResult(state, pstate) ==
  IF state # pstate THEN "PowerStateFailure" ELSE "ok"

\* Mutant of SeaMicroPowerStep: a client error on an observation is taken for
\* one more observation off the target, and the loop goes on.
SeaMicroPowerStep_absorb_observation(c, op, o) ==
  LET rest == Tail(c.k) IN
  CASE op = "get_server" ->
         IF o \in {"NotFound", "ClientException"} THEN Ended(c, o)
         ELSE [c EXCEPT !.k = rest]
    [] op = "reset" /\ c.pc = "start" ->
         IF o = "ClientException" THEN Ended(c, o)
         ELSE [c EXCEPT !.k = rest, !.pc = "loop"]
    [] op = "get_power_status" ->
         IF o = SeaMicroTarget(c)
           THEN [Ended(c, PowerResult(o, SeaMicroTarget(c))) EXCEPT !.state = o]
         ELSE IF c.retries > max_retry
           THEN [Ended(c, PowerResult(ERROR, SeaMicroTarget(c)))
                   EXCEPT !.state = ERROR]
         ELSE [c EXCEPT !.state = ERROR, !.retries = @ + 1, !.pc = "loop",
                        !.k = <<SeaMicroCommand(c), "get_power_status">>]
    [] OTHER ->
         [c EXCEPT !.k = rest]

\* Mutant of SeaMicroPowerStep: the first observation is not compared with the
\* target, so a command is issued even when the node is already there.
SeaMicroPowerStep_command_first(c, op, o) ==
  LET rest == Tail(c.k) IN
  CASE op = "get_server" ->
         IF o \in {"NotFound", "ClientException"} THEN Ended(c, o)
         ELSE [c EXCEPT !.k = rest]
    [] op = "reset" /\ c.pc = "start" ->
         IF o = "ClientException" THEN Ended(c, o)
         ELSE [c EXCEPT !.k = rest, !.pc = "loop"]
    [] op = "get_power_status" ->
         IF o = "NotFound" THEN Ended(c, "NodeNotFound")
         ELSE IF o = "ClientException" THEN Ended(c, "ServiceUnavailable")
         ELSE IF o = SeaMicroTarget(c) /\ c.retries > 0
           THEN [Ended(c, PowerResult(o, SeaMicroTarget(c))) EXCEPT !.state = o]
         ELSE IF c.retries > max_retry
           THEN [Ended(c, PowerResult(ERROR, SeaMicroTarget(c)))
                   EXCEPT !.state = ERROR]
         ELSE [c EXCEPT !.state = o, !.retries = @ + 1, !.pc = "loop",
                        !.k = <<SeaMicroCommand(c), "get_power_status">>]
    [] OTHER ->
         [c EXCEPT !.k = rest]

\* Mutant of SeaMicroPowerStep: the retries are not compared with max_retry.
SeaMicroPowerStep_no_limit(c, op, o) ==
  LET rest == Tail(c.k) IN
  CASE op = "get_server" ->
         IF o \in {"NotFound", "ClientException"} THEN Ended(c, o)
         ELSE [c EXCEPT !.k = rest]
    [] op = "reset" /\ c.pc = "start" ->
         IF o = "ClientException" THEN Ended(c, o)
         ELSE [c EXCEPT !.k = rest, !.pc = "loop"]
    [] op = "get_power_status" ->
         IF o = "NotFound" THEN Ended(c, "NodeNotFound")
         ELSE IF o = "ClientException" THEN Ended(c, "ServiceUnavailable")
         ELSE IF o = SeaMicroTarget(c)
           THEN [Ended(c, PowerResult(o, SeaMicroTarget(c))) EXCEPT !.state = o]
         ELSE [c EXCEPT !.state = o, !.retries = @ + 1, !.pc = "loop",
                        !.k = <<SeaMicroCommand(c), "get_power_status">>]
    [] OTHER ->
         [c EXCEPT !.k = rest]

\* Mutant of SeaMicroPowerStep: a loop that gives up returns what it last
\* observed.
SeaMicroPowerStep_returns_observed(c, op, o) ==
  LET rest == Tail(c.k) IN
  CASE op = "get_server" ->
         IF o \in {"NotFound", "ClientException"} THEN Ended(c, o)
         ELSE [c EXCEPT !.k = rest]
    [] op = "reset" /\ c.pc = "start" ->
         IF o = "ClientException" THEN Ended(c, o)
         ELSE [c EXCEPT !.k = rest, !.pc = "loop"]
    [] op = "get_power_status" ->
         IF o = "NotFound" THEN Ended(c, "NodeNotFound")
         ELSE IF o = "ClientException" THEN Ended(c, "ServiceUnavailable")
         ELSE IF o = SeaMicroTarget(c) \/ c.retries > max_retry
           THEN [Ended(c, PowerResult(o, SeaMicroTarget(c))) EXCEPT !.state = o]
         ELSE [c EXCEPT !.state = o, !.retries = @ + 1, !.pc = "loop",
                        !.k = <<SeaMicroCommand(c), "get_power_status">>]
    [] OTHER ->
         [c EXCEPT !.k = rest]

\* One backend operation of a SeaMicro power call answered with o.
SeaMicroPowerStep(c, op, o) ==
  LET rest == Tail(c.k) IN
  CASE op = "get_server" ->
         \* _get_server before the loop: a client error is not caught
         IF o \in {"NotFound", "ClientException"} THEN Ended(c, o)
         ELSE [c EXCEPT !.k = rest]
    [] op = "reset" /\ c.pc = "start" ->
         \* _reboot: server.reset() before the timer starts, not caught
         IF o = "ClientException" THEN Ended(c, o)
         ELSE [c EXCEPT !.k = rest, !.pc = "loop"]
    [] op = "get_power_status" ->
         \* _wait_for_power_on / _wait_for_power_off / _wait_for_reboot
         IF o = "NotFound" THEN Ended(c, "NodeNotFound")
         ELSE IF o = "ClientException" THEN Ended(c, "ServiceUnavailable")
         ELSE IF o = SeaMicroTarget(c)
           THEN [Ended(c, PowerResult(o, SeaMicroTarget(c))) EXCEPT !.state = o]
         ELSE IF c.retries > max_retry
           THEN [Ended(c, PowerResult(ERROR, SeaMicroTarget(c)))
                   EXCEPT !.state = ERROR]
         ELSE [c EXCEPT !.state = o, !.retries = @ + 1, !.pc = "loop",
                        !.k = <<SeaMicroCommand(c), "get_power_status">>]
    [] OTHER ->
         \* the command of the loop: a ClientException is logged and dropped
         [c EXCEPT !.k = rest]

\* Mutant of SeaMicroPowerEnter: _reboot observes before its first reset.
SeaMicroPowerEnter_observe_first(c, nd) ==
  IF c.ep = "set_power_state" /\ c.args[1] \notin {POWER_ON, POWER_OFF}
    THEN Ended(c, "InvalidParameterValue")
  ELSE IF missing_info(nd) # {}
    THEN [Ended(c, "InvalidParameterValue") EXCEPT !.missing = missing_info(nd)]
  ELSE [c EXCEPT !.pc = "start", !.k = <<"get_server", "get_power_status">>]

\* Power.set_power_state(task, pstate) and Power.reboot(task) up to their
\* first backend operation.
SeaMicroPowerEnter(c, nd) ==
  IF c.ep = "set_power_state" /\ c.args[1] \notin {POWER_ON, POWER_OFF}
    THEN Ended(c, "InvalidParameterValue")
  ELSE IF missing_info(nd) # {}
    THEN [Ended(c, "InvalidParameterValue") EXCEPT !.missing = missing_info(nd)]
  ELSE IF c.ep = "reboot"
    THEN [c EXCEPT !.pc = "start",
                   !.k = <<"get_server", "reset", "get_power_status">>]
  ELSE [c EXCEPT !.pc = "start", !.k = <<"get_server", "get_power_status">>]

\* --- SeaMicro: validate (Power, VendorPassthru, Management), get_power_state
SeaMicroValidateEnter(c, nd) ==
  IF missing_info(nd) # {}
    THEN [Ended(c, "InvalidParameterValue") EXCEPT !.missing = missing_info(nd)]
  ELSE Ended(c, "ok")

SeaMicroStatusEnter(c, nd) ==
  IF missing_info(nd) # {}
    THEN [Ended(c, "InvalidParameterValue") EXCEPT !.missing = missing_info(nd)]
  ELSE [c EXCEPT !.pc = "start", !.k = <<"get_power_status">>]

\* _get_power_status, called by Power.get_power_state
SeaMicroStatusStep(c, op, o) ==
  IF o = "NotFound" THEN Ended(c, "NodeNotFound")
  ELSE IF o = "ClientException" THEN Ended(c, "ServiceUnavailable")
  ELSE [Ended(c, "ok") EXCEPT !.state = o]

\* --- SeaMicro: Management.set_boot_device
\* _BOOT_DEVICES_MAP, and the command server.set_boot_order(boot_device)
BOOT_DEVICES_MAP(device) == IF device = "disk" THEN "hd0" ELSE "pxe"

SetBootOrder(boot_device) ==
  IF boot_device = "hd0" THEN "set_boot_order hd0" ELSE "set_boot_order pxe"

\* Mutant of SeaMicroBootEnter: the device is not checked against the
\* supported ones.
SeaMicroBootEnter_unchecked(c, nd) ==
  IF missing_info(nd) # {}
    THEN [Ended(c, "InvalidParameterValue") EXCEPT !.missing = missing_info(nd)]
  ELSE [c EXCEPT !.pc = "start",
          !.k = <<"get_server", SetBootOrder(BOOT_DEVICES_MAP(c.args[1]))>>]

SeaMicroBootEnter(c, nd) ==
  IF c.args[1] \notin SupportedBootDevices
    THEN Ended(c, "InvalidParameterValue")
  ELSE IF missing_info(nd) # {}
    THEN [Ended(c, "InvalidParameterValue") EXCEPT !.missing = missing_info(nd)]
  ELSE [c EXCEPT !.pc = "start",
          !.k = <<"get_server", SetBootOrder(BOOT_DEVICES_MAP(c.args[1]))>>]

SeaMicroBootStep(c, op, o) ==
  IF o \in {"NotFound", "ClientException"} THEN Ended(c, "IronicException")
  ELSE IF Tail(c.k) = <<>> THEN Ended(c, "ok")
  ELSE [c EXCEPT !.k = Tail(c.k)]

\* --- SeaMicro: VendorPassthru.vendor_passthru
\* args = <<method, vlan_id, volume_id, volume_size>>
SeaMicroVendorEnter(c, nd) ==
  LET method == c.args[1] IN
  IF method \notin VENDOR_PASSTHRU_METHODS
    THEN Ended(c, "ok")                     \* falls through: returns None
  ELSE IF method = "set_node_vlan_id"
    THEN IF c.args[2] = "None" THEN Ended(c, "InvalidParameterValue")
         ELSE IF missing_info(nd) # {}
           THEN [Ended(c, "InvalidParameterValue")
                   EXCEPT !.missing = missing_info(nd)]
         ELSE [c EXCEPT !.pc = "start",
                 !.k = <<"get_server", "refresh", "set_untagged_vlan", "save">>]
  ELSE \* attach_volume
    IF missing_info(nd) # {}
      THEN [Ended(c, "InvalidParameterValue") EXCEPT !.missing = missing_info(nd)]
    ELSE IF c.args[3] = "None"
      THEN IF c.args[4] = "None" THEN Ended(c, "InvalidParameterValue")
           ELSE [c EXCEPT !.pc = "create",
                   !.k = <<"pools.list", "volumes.create", "volumes.get",
                           "get_server", "detach_volume", "refresh",
                           "attach_volume", "save">>]
    ELSE [c EXCEPT !.pc = "validate",
            !.k = <<"volumes.get", "get_server", "detach_volume", "refresh",
                    "attach_volume", "save">>]

\* VendorPassthru.validate: args = <<method>>
SeaMicroVendorValidateEnter(c, nd) ==
  IF c.args[1] \notin VENDOR_PASSTHRU_METHODS
    THEN Ended(c, "InvalidParameterValue")  \* Unsupported method
  ELSE IF missing_info(nd) # {}
    THEN [Ended(c, "InvalidParameterValue") EXCEPT !.missing = missing_info(nd)]
  ELSE Ended(c, "ok")

SeaMicroVendorStep(c, op, o) ==
  LET rest == Tail(c.k) IN
  CASE op = "pools.list" ->
         \* _create_volume: outside any try
         IF o = "ClientException" THEN Ended(c, o)
         ELSE IF o = "None" THEN Ended(c, "VendorPassthruException")
         ELSE IF o = "empty" THEN Ended(c, "IndexError")
         ELSE [c EXCEPT !.k = rest]
    [] op = "volumes.create" ->
         IF o = "ClientException" THEN Ended(c, o)
         ELSE [c EXCEPT !.k = rest, !.pc = "validate"]
    [] op = "volumes.get" ->
         \* _validate_volume: outside any try
         IF o = "ClientException" THEN Ended(c, o)
         ELSE IF o = "other" THEN Ended(c, "InvalidParameterValue")
         ELSE [c EXCEPT !.k = rest, !.pc = "try"]
    [] op = "save" ->
         [Ended(c, "ok") EXCEPT !.saved = TRUE]
    [] OTHER ->
         \* inside try: any client error becomes VendorPassthruException
         IF o \in {"NotFound", "ClientException"}
           THEN Ended(c, "VendorPassthruException")
         ELSE IF op = "get_server" /\ o = "ok_untagged_vlan"
                 /\ c.args[1] = "set_node_vlan_id"
           THEN [c EXCEPT !.k = <<"unset_untagged_vlan">> \o rest, !.pc = "try"]
         ELSE [c EXCEPT !.k = rest, !.pc = "try"]

\* --- SSH: SSHPower.set_power_state, SSHPower.reboot
\* The steps of _power_off and of _power_on, in the order they run.
PowerOffScript == <<"off.status1", "off.name", "stop_cmd", "off.status2">>

\* Mutant of PowerOnScript: the start command is sent a second time.
PowerOnScript_second_attempt ==
  <<"on.status1", "on.name", "start_cmd", "start_cmd", "on.status2">>

PowerOnScript == <<"on.status1", "on.name", "start_cmd", "on.status2">>

\* The backend operation a step performs.
OpOf(label) ==
  IF label \in {"off.status1", "off.status2", "on.status1", "on.status2",
                "rb.status", "gs.status"}
    THEN "get_power_status"
  ELSE IF label \in {"off.name", "on.name"} THEN "get_hosts_name"
  ELSE label

SSHOutcomes(op) ==
  CASE op = "connect" -> {"ok", "SSHConnectFailed"}
    [] op = "get_power_status" ->
         {POWER_ON, POWER_OFF, "NodeNotFound", "SSHCommandFailed"}
    [] op = "get_hosts_name" -> {"ok", "None", "SSHCommandFailed"}
    [] OTHER -> {"ok", "SSHCommandFailed"}

\* The state the transition asked for.
SSHTarget(c) == IF c.ep = "set_power_state" THEN c.args[1] ELSE POWER_ON

\* Mutant of SSHReturned: the state returned is not compared with the one
\* asked for.
SSHReturned_unchecked(c, state, rest) ==
  IF rest = <<>>
    THEN [Ended(c, "ok") EXCEPT !.state = state]
  ELSE [c EXCEPT !.state = state, !.k = rest]

\* Mutant of SSHReturned: an ERROR from the inner _power_off ends the call.
SSHReturned_reports_failure(c, state, rest) ==
  IF rest = <<>> \/ state = ERROR
    THEN [Ended(c, PowerResult(state, SSHTarget(c))) EXCEPT !.state = state]
  ELSE [c EXCEPT !.state = state, !.k = rest]

\* _power_on or _power_off returned `state` with `rest` left to run.
SSHReturned(c, state, rest) ==
  IF rest = <<>>
    THEN [Ended(c, PowerResult(state, SSHTarget(c))) EXCEPT !.state = state]
  ELSE [c EXCEPT !.state = state, !.k = rest]

\* Mutant of SSHEnter: the connection is opened before driver_info is parsed.
SSHEnter_connect_first(c, nd) ==
  IF c.ep = "validate" /\ ~nd.ports
    THEN Ended(c, "InvalidParameterValue")
  ELSE [c EXCEPT !.pc = "start", !.k = <<"connect">>]

\* The SSH entry points up to their first backend call.  _parse_driver_info
\* is followed here for its required keys only.
SSHEnter(c, nd) ==
  IF c.ep = "validate" /\ ~nd.ports
    THEN Ended(c, "InvalidParameterValue")   \* no port associated with it
  ELSE IF missing_info(nd) # {}
    THEN [Ended(c, "InvalidParameterValue") EXCEPT !.missing = missing_info(nd)]
  ELSE [c EXCEPT !.pc = "start", !.k = <<"connect">>]

\* Mutant of SSHStep: _power_on starts a node it finds on without powering
\* it off first.
SSHStep_no_cycle(c, label, o) ==
  LET rest == Tail(c.k) IN
  IF c.ep = "validate"
    THEN \* SSHPower.validate: a refused connection is a bad parameter
         Ended(c, IF o = "ok" THEN "ok" ELSE "InvalidParameterValue")
  ELSE IF o \in {"SSHConnectFailed", "SSHCommandFailed", "NodeNotFound"}
    THEN Ended(c, o)
  ELSE CASE label = "connect" ->
         IF c.ep = "get_power_state"
           THEN [c EXCEPT !.pc = "run", !.k = <<"gs.status">>]
         ELSE IF c.ep = "reboot"
           THEN [c EXCEPT !.pc = "run", !.k = <<"rb.status">> \o PowerOnScript]
         ELSE IF c.args[1] = POWER_ON
           THEN [c EXCEPT !.pc = "run", !.k = PowerOnScript]
         ELSE IF c.args[1] = POWER_OFF
           THEN [c EXCEPT !.pc = "run", !.k = PowerOffScript]
         ELSE Ended(c, "InvalidParameterValue")
    [] label = "gs.status" ->
         [Ended(c, "ok") EXCEPT !.state = o]
    [] label = "rb.status" ->
         IF o = POWER_ON
           THEN [c EXCEPT !.state = o, !.k = PowerOffScript \o rest]
         ELSE [c EXCEPT !.state = o, !.k = rest]
    [] label = "on.status1" ->
         [c EXCEPT !.state = o, !.k = rest]
    [] label = "off.status1" ->
         IF o = POWER_OFF
           THEN SSHReturned(c, o, SubSeq(rest, 4, Len(rest)))
         ELSE [c EXCEPT !.state = o, !.k = rest]
    [] label \in {"off.name", "on.name"} ->
         IF o = "None" THEN Ended(c, "TypeError") ELSE [c EXCEPT !.k = rest]
    [] label = "off.status2" ->
         SSHReturned(c, IF o = POWER_OFF THEN o ELSE ERROR, rest)
    [] label = "on.status2" ->
         SSHReturned(c, IF o = POWER_ON THEN o ELSE ERROR, rest)
    [] OTHER -> [c EXCEPT !.k = rest]

SSHStep(c, label, o) ==
  LET rest == Tail(c.k) IN
  IF c.ep = "validate"
    THEN \* SSHPower.validate: a refused connection is a bad parameter
         Ended(c, IF o = "ok" THEN "ok" ELSE "InvalidParameterValue")
  ELSE IF o \in {"SSHConnectFailed", "SSHCommandFailed", "NodeNotFound"}
    THEN Ended(c, o)
  ELSE CASE label = "connect" ->
         IF c.ep = "get_power_state"
           THEN [c EXCEPT !.pc = "run", !.k = <<"gs.status">>]
         ELSE IF c.ep = "reboot"
           THEN [c EXCEPT !.pc = "run", !.k = <<"rb.status">> \o PowerOnScript]
         ELSE IF c.args[1] = POWER_ON
           THEN [c EXCEPT !.pc = "run", !.k = PowerOnScript]
         ELSE IF c.args[1] = POWER_OFF
           THEN [c EXCEPT !.pc = "run", !.k = PowerOffScript]
         ELSE Ended(c, "InvalidParameterValue")
    [] label = "gs.status" ->
         [Ended(c, "ok") EXCEPT !.state = o]
    [] label \in {"rb.status", "on.status1"} ->
         IF o = POWER_ON
           THEN [c EXCEPT !.state = o, !.k = PowerOffScript \o rest]
         ELSE [c EXCEPT !.state = o, !.k = rest]
    [] label = "off.status1" ->
         IF o = POWER_OFF
           THEN SSHReturned(c, o, SubSeq(rest, 4, Len(rest)))
         ELSE [c EXCEPT !.state = o, !.k = rest]
    [] label \in {"off.name", "on.name"} ->
         \* the command line is built by replace() with the name found
         IF o = "None" THEN Ended(c, "TypeError") ELSE [c EXCEPT !.k = rest]
    [] label = "off.status2" ->
         SSHReturned(c, IF o = POWER_OFF THEN o ELSE ERROR, rest)
    [] label = "on.status2" ->
         SSHReturned(c, IF o = POWER_ON THEN o ELSE ERROR, rest)
    [] OTHER -> [c EXCEPT !.k = rest]

\* --- a driver call inside a task's scope
EntryPoints(driver) ==
  IF driver = "seamicro"
    THEN {"validate", "get_power_state", "set_power_state", "reboot",
          "set_boot_device", "vendor_passthru", "vendor_validate"}
  ELSE {"validate", "get_power_state", "set_power_state", "reboot"}

Optional(S) == S \cup {"None"}

Args(ep) ==
  CASE ep = "set_power_state" -> {<<p>> : p \in {POWER_ON, POWER_OFF, NOSTATE}}
    [] ep \in {"reboot", "validate", "get_power_state"} -> {<<>>}
    [] ep = "set_boot_device" -> {<<d>> : d \in {"disk", "pxe", "cdrom"}}
    [] ep = "vendor_passthru" ->
         {<<"set_node_vlan_id", v, "None", "None">> : v \in Optional({"vlan1"})}
         \cup {<<"attach_volume", "None", v, z>> :
                 v \in Optional({"vol1"}), z \in Optional({"size1"})}
         \cup {<<"other", "None", "None", "None">>}
    [] ep = "vendor_validate" ->
         {<<m>> : m \in VENDOR_PASSTHRU_METHODS \cup {"other"}}

\* The method body, entered once the decorator let the call through.
Enter(c, nd) ==
  IF nd.driver = "ssh" THEN SSHEnter(c, nd)
  ELSE IF c.ep = "validate" THEN SeaMicroValidateEnter(c, nd)
  ELSE IF c.ep = "get_power_state" THEN SeaMicroStatusEnter(c, nd)
  ELSE IF c.ep = "set_boot_device" THEN SeaMicroBootEnter(c, nd)
  ELSE IF c.ep = "vendor_passthru" THEN SeaMicroVendorEnter(c, nd)
  ELSE IF c.ep = "vendor_validate" THEN SeaMicroVendorValidateEnter(c, nd)
  ELSE SeaMicroPowerEnter(c, nd)

Step(c, nd, label, o) ==
  IF nd.driver = "ssh" THEN SSHStep(c, label, o)
  ELSE IF c.ep = "get_power_state" THEN SeaMicroStatusStep(c, label, o)
  ELSE IF c.ep = "set_boot_device" THEN SeaMicroBootStep(c, label, o)
  ELSE IF c.ep = "vendor_passthru" THEN SeaMicroVendorStep(c, label, o)
  ELSE SeaMicroPowerStep(c, label, o)

\* Without a MAC address to look for, _get_hosts_name_for_node finds no name.
BackendOutcomes(nd, op) ==
  IF nd.driver # "ssh" THEN Outcomes(op)
  ELSE IF ~nd.ports /\ op \in {"get_power_status", "get_hosts_name"}
    THEN SSHOutcomes(op) \ {POWER_ON, POWER_OFF, "ok"}
  ELSE SSHOutcomes(op)

\* node.properties after the vendor method of call c saved the node.
SavedProperties(c, props) ==
  IF c.args[1] = "set_node_vlan_id"
    THEN [props EXCEPT !.seamicro_vlan_id = c.args[2]]
  ELSE [props EXCEPT !.seamicro_volume_id =
          IF c.args[3] = "None" THEN "created" ELSE c.args[3]]

\* Task t calls entry point ep of its node's driver.
DriverInvoke(t, ep, args) ==
  /\ task[t].pc = "held"
  /\ call[t].pc = "none"
  /\ LET n == task[t].nodes[1]
         c == [NoDriverCall EXCEPT !.node = n, !.ep = ep, !.args = args] IN
       /\ ep \in EntryPoints(node[n].driver)
       /\ call' = [call EXCEPT ![t] =
            IF require_exclusive_lock(t, node[n].driver, ep)
              THEN Ended(c, "ExclusiveLockRequired")
            ELSE Enter(c, node[n])]
  /\ UNCHANGED <<reservation, last, task, node, conductor, now>>

\* The next backend operation of t's call is made and answers o.
BackendStep(t, o) ==
  /\ call[t].pc \notin {"none", "done"}
  /\ LET c == call[t]
         n == c.node
         label == Head(c.k)
         op == OpOf(label)
         d == Step([c EXCEPT !.issued = Append(@, op), !.answer = o],
                   node[n], label, o) IN
       /\ o \in BackendOutcomes(node[n], op)
       /\ call' = [call EXCEPT ![t] = d]
       /\ node' = IF d.saved
                    THEN [node EXCEPT ![n].properties = SavedProperties(c, @)]
                    ELSE node
  /\ UNCHANGED <<reservation, last, task, conductor, now>>

\* The entry point returned or raised, and the caller goes on.
DriverReturn(t) ==
  /\ call[t].pc = "done"
  /\ call' = [call EXCEPT ![t] = NoDriverCall]
  /\ UNCHANGED <<reservation, last, task, node, conductor, now>>

\* --------------------------------------------------------------- TaskManager
IdleTask ==
  [pc |-> "idle", nodes |-> <<>>, shared |-> FALSE, i |-> 0,
   err |-> NoError, exit |-> "none", took |-> FALSE, seen |-> FALSE]

RECURSIVE SeqsOfLen(_, _)
SeqsOfLen(S, n) ==
  IF n = 0 THEN {<<>>}
  ELSE {Append(s, x) : s \in SeqsOfLen(S, n - 1), x \in S}

Range(s) == {s[k] : k \in 1..Len(s)}

\* The node lists an acquire may name: 1..MaxAcquire distinct ids.
AcquireLists(S) ==
  {s \in UNION {SeqsOfLen(S, n) : n \in 1..MaxAcquire} :
     Cardinality(Range(s)) = Len(s)}

\* An exclusive acquire may name an id that matches no node: its reserve then
\* fails and the ids after it are never read, so it is enumerated in the last
\* place only.  A shared task is bound to nodes that exist; it reserves none
\* of them, so their order is immaterial and they are listed in increasing
\* order.
ExclusiveLists ==
  {s \in AcquireLists(NodeIds) : \A k \in 1..(Len(s) - 1) : s[k] \in Nodes}
SharedLists ==
  {s \in AcquireLists(Nodes) : \A k \in 1..(Len(s) - 1) : s[k] < s[k + 1]}

ExitKinds == {"normal", "error", "cancelled"}

Init ==
  /\ conductor = [h \in Hosts |-> NoConductor]
  /\ now = 0
  /\ reservation = [n \in Nodes |-> None]
  /\ last = NoCall
  /\ task = [t \in Tasks |-> IdleTask]
  /\ node = [n \in Nodes |-> NewNode("seamicro", SEAMICRO_REQUIRED_PROPERTIES)]
  /\ call = [t \in Tasks |-> NoDriverCall]

\* Some node of ns is reserved, in res, by a tag other than t's.
ReservedByOther(res, t, ns) ==
  \E k \in 1..Len(ns) : Holder(res, ns[k]) \notin {None, TagOf(t)}

\* Mutant of Acquire: a shared acquire reserves its nodes like an exclusive one.
Acquire_shared_reserves(t, ns, sh) ==
  /\ task[t].pc = "idle"
  /\ task' = [task EXCEPT ![t] =
       [IdleTask EXCEPT !.pc = "acquiring", !.nodes = ns, !.shared = sh,
                        !.seen = sh /\ ReservedByOther(reservation, t, ns)]]
  /\ UNCHANGED <<reservation, last, node, call, conductor, now>>

\* acquire(node_ids, shared): a shared task takes no reservation.  `seen`
\* records that a shared acquire found a node reserved by another tag.
Acquire(t, ns, sh) ==
  /\ task[t].pc = "idle"
  /\ task' = [task EXCEPT ![t] =
       [IdleTask EXCEPT !.pc = IF sh THEN "held" ELSE "acquiring",
                        !.nodes = ns, !.shared = sh,
                        !.seen = sh /\ ReservedByOther(reservation, t, ns)]]
  /\ UNCHANGED <<reservation, last, node, call, conductor, now>>

\* Mutant of Upgrade: the upgrade takes the node without asking who has it.
Upgrade_force(t) ==
  /\ task[t].pc = "held"
  /\ task[t].shared
  /\ Len(task[t].nodes) = 1
  /\ reservation' = [reservation EXCEPT ![task[t].nodes[1]] = TagOf(t)]
  /\ task' = [task EXCEPT ![t] = [@ EXCEPT !.shared = FALSE, !.i = 1,
                                            !.err = NoError, !.seen = FALSE]]
  /\ UNCHANGED <<last, node, call, conductor, now>>

\* A shared task on one node asks for the exclusive lock: one reserve of the
\* node.  On NodeLocked the task stays shared and `err` keeps the error.
Upgrade(t) ==
  /\ task[t].pc = "held"
  /\ task[t].shared
  /\ Len(task[t].nodes) = 1
  /\ LET r == reserve_node(reservation, TagOf(t), task[t].nodes[1]) IN
       /\ reservation' = r.res
       /\ task' = [task EXCEPT ![t] =
            IF r.err = NoError
              THEN [@ EXCEPT !.shared = FALSE, !.i = 1, !.err = NoError,
                             !.seen = FALSE]
              ELSE [@ EXCEPT !.err = r.err]]
  /\ UNCHANGED <<last, node, call, conductor, now>>

\* Mutant of AcquireStep: a failed acquire reports at once and keeps what it
\* took.
AcquireStep_no_rollback(t) ==
  /\ task[t].pc = "acquiring"
  /\ LET n == task[t].nodes[task[t].i + 1]
         r == reserve_node(reservation, TagOf(t), n) IN
       /\ reservation' = r.res
       /\ UNCHANGED <<last, node, call, conductor, now>>
       /\ task' = [task EXCEPT ![t] =
            IF r.err = NoError
              THEN [@ EXCEPT !.i = @ + 1,
                             !.pc = IF task[t].i + 1 = Len(task[t].nodes)
                                      THEN "held" ELSE "acquiring"]
              ELSE [@ EXCEPT !.err = r.err, !.pc = "failed", !.nodes = <<>>,
                             !.took = task[t].i > 0]]

\* One reserve of an exclusive acquire, in the order of the list.
AcquireStep(t) ==
  /\ task[t].pc = "acquiring"
  /\ LET n == task[t].nodes[task[t].i + 1]
         r == reserve_node(reservation, TagOf(t), n) IN
       /\ reservation' = r.res
       /\ UNCHANGED <<last, node, call, conductor, now>>
       /\ task' = [task EXCEPT ![t] =
            IF r.err = NoError
              THEN [@ EXCEPT !.i = @ + 1,
                             !.pc = IF task[t].i + 1 = Len(task[t].nodes)
                                      THEN "held" ELSE "acquiring"]
              ELSE IF task[t].i = 0
                THEN [@ EXCEPT !.err = r.err, !.pc = "failed", !.nodes = <<>>]
                ELSE [@ EXCEPT !.err = r.err, !.pc = "rollback", !.took = TRUE,
                               !.nodes = SubSeq(@, 1, task[t].i)]]

\* A failed acquire gives back what it took, last taken first, and only then
\* reports the failure.  `nodes` now lists what is still to give back.
RollbackStep(t) ==
  /\ task[t].pc = "rollback"
  /\ LET n == task[t].nodes[task[t].i]
         r == release_node(reservation, TagOf(t), n) IN
       /\ reservation' = r.res
       /\ UNCHANGED <<last, node, call, conductor, now>>
       /\ task' = [task EXCEPT ![t] =
            IF task[t].i = 1
              THEN [@ EXCEPT !.i = 0, !.pc = "failed",
                             !.nodes = <<>>]
              ELSE [@ EXCEPT !.i = @ - 1,
                             !.nodes = SubSeq(@, 1, task[t].i - 1)]]

\* The caller has seen the failure of acquire.
AcquireFailed(t) ==
  /\ task[t].pc = "failed"
  /\ task' = [task EXCEPT ![t] = IdleTask]
  /\ UNCHANGED <<reservation, last, node, call, conductor, now>>

\* Mutant of ExitScope: an error raised in the scope skips the release.
ExitScope_leak(t, kind) ==
  /\ task[t].pc = "held"
  /\ call[t].pc = "none"
  /\ task' = [task EXCEPT ![t] =
       IF task[t].i = 0 \/ kind = "error"
         THEN [@ EXCEPT !.exit = kind, !.pc = "exited", !.nodes = <<>>,
                        !.took = task[t].i > 0, !.err = NoError,
                        !.seen = FALSE]
         ELSE [@ EXCEPT !.exit = kind, !.pc = "releasing", !.took = TRUE]]
  /\ UNCHANGED <<reservation, last, node, call, conductor, now>>

\* The scope is left: normally, by an error raised in it, or by cancellation.
\* A driver call runs inside the scope, so the scope is not left under it.
ExitScope(t, kind) ==
  /\ task[t].pc = "held"
  /\ call[t].pc = "none"
  /\ task' = [task EXCEPT ![t] =
       IF task[t].i = 0
         THEN [@ EXCEPT !.exit = kind, !.pc = "exited", !.nodes = <<>>,
                        !.err = NoError, !.seen = FALSE]
         ELSE [@ EXCEPT !.exit = kind, !.pc = "releasing", !.took = TRUE]]
  /\ UNCHANGED <<reservation, last, node, call, conductor, now>>

\* release_resources: one release per node the scope reserved.
ReleaseStep(t) ==
  /\ task[t].pc = "releasing"
  /\ LET n == task[t].nodes[task[t].i]
         r == release_node(reservation, TagOf(t), n) IN
       /\ reservation' = r.res
       /\ UNCHANGED <<last, node, call, conductor, now>>
       /\ task' = [task EXCEPT ![t] =
            IF task[t].i = 1
              THEN [@ EXCEPT !.i = 0, !.pc = "exited",
                             !.nodes = <<>>]
              ELSE [@ EXCEPT !.i = @ - 1,
                             !.nodes = SubSeq(@, 1, task[t].i - 1)]]

ScopeDone(t) ==
  /\ task[t].pc = "exited"
  /\ task' = [task EXCEPT ![t] = IdleTask]
  /\ UNCHANGED <<reservation, last, node, call, conductor, now>>

Next ==
  \/ \E tag \in Tags, id \in NodeIds : DirectReserve(tag, id)
  \/ \E tag \in Tags, id \in NodeIds : DirectRelease(tag, id)

Spec == Init /\ [][Next]_vars

NextTask ==
  \/ \E t \in Tasks, ns \in ExclusiveLists : Acquire(t, ns, FALSE)
  \/ \E t \in Tasks, ns \in SharedLists : Acquire(t, ns, TRUE)
  \/ \E t \in Tasks : AcquireStep(t)
  \/ \E t \in Tasks : RollbackStep(t)
  \/ \E t \in Tasks : AcquireFailed(t)
  \/ \E t \in Tasks, kind \in ExitKinds : ExitScope(t, kind)
  \/ \E t \in Tasks : ReleaseStep(t)
  \/ \E t \in Tasks : ScopeDone(t)

SpecTask == Init /\ [][NextTask]_vars

\* Scopes on single nodes, shared ones asking for the exclusive lock.
NextUpgrade ==
  \/ \E t \in Tasks, n \in Nodes, sh \in BOOLEAN : Acquire(t, <<n>>, sh)
  \/ \E t \in Tasks : AcquireStep(t)
  \/ \E t \in Tasks : AcquireFailed(t)
  \/ \E t \in Tasks : Upgrade(t)
  \/ \E t \in Tasks : ExitScope(t, "normal")
  \/ \E t \in Tasks : ReleaseStep(t)
  \/ \E t \in Tasks : ScopeDone(t)

SpecUpgrade == Init /\ [][NextUpgrade]_vars

\* ------------------------------------------------------------- properties
\* A scope on one node, entered shared or exclusive, in which drivers are
\* called. A shared scope leaves the reservation to whoever has it.
HeldTask(n, sh) ==
  [IdleTask EXCEPT !.pc = "held", !.nodes = <<n>>, !.shared = sh,
                   !.i = IF sh THEN 0 ELSE 1]

InitDriver ==
  /\ conductor = [h \in Hosts |-> NoConductor]
  /\ now = 0
  /\ last = NoCall
  /\ call = [t \in Tasks |-> NoDriverCall]
  /\ \E t \in Tasks, n \in Nodes, sh \in BOOLEAN :
       /\ task = [u \in Tasks |-> IF u = t THEN HeldTask(n, sh) ELSE IdleTask]
       /\ \E h \in (IF sh THEN (Tags \ {TagOf(t)}) \cup {None} ELSE {TagOf(t)}) :
            reservation = [m \in Nodes |-> IF m = n THEN h ELSE None]
  /\ \E driver \in {"seamicro", "ssh"} :
       \E info \in SUBSET RequiredProperties(driver) :
         \E ports \in (IF driver = "ssh" THEN BOOLEAN ELSE {TRUE}) :
           node = [m \in Nodes |->
                     [NewNode(driver, info) EXCEPT !.ports = ports]]

NextDriver ==
  \/ \E t \in Tasks : \E ep \in EntryPoints("seamicro") : \E args \in Args(ep) :
       DriverInvoke(t, ep, args)
  \/ \E t \in Tasks :
       \E o \in UNION {Outcomes(op) \cup SSHOutcomes(op) :
                         op \in Commands \cup {"get_server", "get_power_status",
                                               "pools.list", "volumes.get",
                                               "save", "connect",
                                               "get_hosts_name"}} :
         BackendStep(t, o)
  \/ \E t \in Tasks : DriverReturn(t)

SpecDriver == InitDriver /\ [][NextDriver]_vars

\* The same calls when every backend operation that is made returns, with
\* whatever answer.
BackendAnswers ==
  UNION {Outcomes(op) \cup SSHOutcomes(op) :
           op \in Commands \cup {"get_server", "get_power_status", "pools.list",
                                 "volumes.get", "save", "connect",
                                 "get_hosts_name"}}

BackendReturns(t) == \E o \in BackendAnswers : BackendStep(t, o)

SpecDriverFair ==
  SpecDriver /\ \A t \in Tasks : WF_vars(BackendReturns(t))

\* Tasks of several conductors take scopes on one and the same node and run
\* power transitions in them.  (Transitions on different nodes have no state
\* in common.)
ContendedNode == CHOOSE n \in Nodes : TRUE

PowerArgs(ep) ==
  IF ep = "reboot" THEN {<<>>} ELSE {<<POWER_ON>>, <<POWER_OFF>>}

InitPower ==
  /\ conductor = [h \in Hosts |-> NoConductor]
  /\ now = 0
  /\ reservation = [n \in Nodes |-> None]
  /\ last = NoCall
  /\ task = [t \in Tasks |-> IdleTask]
  /\ call = [t \in Tasks |-> NoDriverCall]
  /\ \E driver \in {"seamicro", "ssh"} :
       node = [n \in Nodes |-> NewNode(driver, RequiredProperties(driver))]

NextPower ==
  \/ \E t \in Tasks, sh \in BOOLEAN : Acquire(t, <<ContendedNode>>, sh)
  \/ \E t \in Tasks : AcquireStep(t)
  \/ \E t \in Tasks : AcquireFailed(t)
  \/ \E t \in Tasks : \E ep \in {"set_power_state", "reboot"} :
       \E args \in PowerArgs(ep) : DriverInvoke(t, ep, args)
  \/ \E t \in Tasks :
       \E o \in UNION {Outcomes(op) \cup SSHOutcomes(op) :
                         op \in Commands \cup {"get_server", "get_power_status",
                                               "connect", "get_hosts_name"}} :
         BackendStep(t, o)
  \/ \E t \in Tasks : DriverReturn(t)
  \/ \E t \in Tasks : ExitScope(t, "normal")
  \/ \E t \in Tasks : ReleaseStep(t)
  \/ \E t \in Tasks : ScopeDone(t)

SpecPower == InitPower /\ [][NextPower]_vars

\* Conductors register, check in and leave while time passes.
InitConductor ==
  /\ conductor = [h \in Hosts |-> NoConductor]
  /\ now = 0
  /\ reservation = [n \in Nodes |-> None]
  /\ last = NoCall
  /\ task = [t \in Tasks |-> IdleTask]
  /\ node = [n \in Nodes |-> NewNode("seamicro", SEAMICRO_REQUIRED_PROPERTIES)]
  /\ call = [t \in Tasks |-> NoDriverCall]

NextConductor ==
  \/ \E h \in Hosts, ds \in SUBSET DriverNames : RegisterConductor(h, ds)
  \/ \E h \in Hosts : TouchConductor(h)
  \/ \E h \in Hosts : UnregisterConductor(h)
  \/ \E d \in TickSteps : Tick(d)

SpecConductor == InitConductor /\ [][NextConductor]_vars

\* One task holds a node and calls its driver while conductors call the db
\* api on the node and conductor tables.
StoreDriverCalls ==
  {<<"vendor_passthru", <<"set_node_vlan_id", "vlan1", "None", "None">>>>,
   <<"get_power_state", <<>>>>}

\* The db api is called for the node the task holds and for an id that
\* matches no node.  (Calls for different nodes have no state in common.)
StoreNodeIds == {0, ContendedNode}

\* The task that holds the node at the start.
StoreHolder == CHOOSE t \in Tasks : TRUE

InitStore ==
  /\ conductor = [h \in Hosts |-> NoConductor]
  /\ now = 0
  /\ last = NoCall
  /\ call = [t \in Tasks |-> NoDriverCall]
  /\ node = [n \in Nodes |-> NewNode("seamicro", SEAMICRO_REQUIRED_PROPERTIES)]
  /\ task = [u \in Tasks |->
               IF u = StoreHolder THEN HeldTask(ContendedNode, FALSE)
               ELSE IdleTask]
  /\ reservation =
       [n \in Nodes |-> IF n = ContendedNode THEN TagOf(StoreHolder) ELSE None]

NextStore ==
  \/ \E tag \in Tags, node_id \in StoreNodeIds : StoreReserve(tag, node_id)
  \/ \E tag \in Tags, node_id \in StoreNodeIds : StoreRelease(tag, node_id)
  \/ \E node_id \in StoreNodeIds, values \in UpdateValues :
       UpdateNode(node_id, values)
  \/ \E node_id \in StoreNodeIds : DestroyNode(node_id)
  \/ \E node_id \in StoreNodeIds : GetNode(node_id)
  \/ \E h \in Hosts : RegisterConductor(h, DriverNames)
  \/ \E h \in Hosts : TouchConductor(h)
  \/ \E h \in Hosts : UnregisterConductor(h)
  \/ \E t \in Tasks : \E dc \in StoreDriverCalls :
       DriverInvoke(t, dc[1], dc[2])
  \/ \E t \in Tasks :
       \E o \in UNION {Outcomes(op) :
                         op \in {"get_server", "get_power_status",
                                  "set_untagged_vlan", "save"}} :
         BackendStep(t, o)
  \/ \E t \in Tasks : DriverReturn(t)

SpecStore == InitStore /\ [][NextStore]_vars

TypeOK ==
  /\ reservation \in [Nodes -> Tags \cup {None}]
  /\ last.op \in {"none", "reserve", "release", "update_node", "destroy_node",
                  "get_node", "register_conductor", "touch_conductor",
                  "unregister_conductor"}
  /\ now \in 0..MaxTime
  /\ \A h \in Hosts :
       /\ conductor[h].drivers \subseteq DriverNames
       /\ conductor[h].updated_at \in {None} \cup 0..now
  /\ \A t \in Tasks :
       /\ task[t].pc \in {"idle", "acquiring", "rollback", "failed", "held",
                          "releasing", "exited"}
       /\ task[t].i \in 0..Len(task[t].nodes)

\* The last direct call found the node held by a tag other than the caller's.
HeldByOther == last.pre \in Tags /\ last.pre # last.tag

\* C1: a reserve of a node that another tag has reserved and not released
\* fails with NodeLocked naming that holder, and the node stays reserved by
\* that holder.
C1_ReserveOfHeldNodeIsLocked ==
  (last.op = "reserve" /\ HeldByOther) =>
    /\ last.err = NodeLocked(last.pre)
    /\ reservation[last.node] = last.pre

C1_Witness == last.op = "reserve" /\ HeldByOther

\* Task t has reserved node n in its scope and not yet given it back.
Holds(t, n) ==
  /\ task[t].pc \in {"acquiring", "held", "rollback", "releasing"}
  /\ ~task[t].shared
  /\ \E k \in 1..task[t].i : task[t].nodes[k] = n

\* The reserve a task in "acquiring" is about to make.
Pending(t) == task[t].nodes[task[t].i + 1]

\* The step of task t out of a pending reserve decides it: it succeeds exactly
\* when the node exists and is unreserved, and fails with NodeLocked naming
\* the holder when the node is reserved.
RaceStep(t) ==
  (task[t].pc = "acquiring" /\ task'[t] # task[t]) =>
    LET n == Pending(t) IN
      IF n \in Nodes /\ reservation[n] = None
        THEN /\ task'[t].i = task[t].i + 1
             /\ task'[t].pc \in {"acquiring", "held"}
             /\ reservation'[n] = TagOf(t)
      ELSE IF n \in Nodes
        THEN /\ task'[t].pc \in {"rollback", "failed"}
             /\ task'[t].err = NodeLocked(reservation[n])
             /\ reservation'[n] = reservation[n]
      ELSE task'[t].pc \in {"rollback", "failed"}

\* C2: of the holders racing to reserve one node exactly one wins: no node is
\* ever reserved for two scopes, a pending reserve can always be executed
\* (nothing waits), and its one step either takes the unreserved node or fails
\* with NodeLocked naming the holder.
C2_ExactlyOneReserveWins ==
  /\ [](\A n \in Nodes : \A t1, t2 \in Tasks :
          (Holds(t1, n) /\ Holds(t2, n)) => t1 = t2)
  /\ [](\A n \in Nodes : \A t \in Tasks :
          Holds(t, n) => reservation[n] = TagOf(t))
  /\ [](\A t \in Tasks : task[t].pc = "acquiring" => ENABLED AcquireStep(t))
  /\ [][\A t \in Tasks : RaceStep(t)]_vars

C2_Witness ==
  \E t1, t2 \in Tasks, n \in Nodes :
    /\ t1 # t2
    /\ Holds(t1, n)
    /\ task[t2].pc = "failed"
    /\ task[t2].err = NodeLocked(TagOf(t1))

\* C3: a reservation is None or one tag, and it goes from a tag t to None
\* only in a successful release_node call made with tag t for that node.
C3_OnlyHolderClears ==
  /\ [](reservation \in [Nodes -> Tags \cup {None}])
  /\ [][\A n \in Nodes :
          (reservation[n] # None /\ reservation'[n] = None) =>
            /\ last'.op = "release"
            /\ last'.tag = reservation[n]
            /\ last'.node = n
            /\ last'.err = NoError]_vars

C3_Witness ==
  /\ last.op = "release" /\ last.err = NoError
  /\ last.pre = last.tag
  /\ reservation[last.node] = None

\* C4: a release by a tag other than the holder's fails with NodeLocked and
\* the holder keeps the node; a release of an unreserved node fails with
\* NodeNotLocked and the node stays unreserved.
C4_ReleaseErrors ==
  /\ (last.op = "release" /\ HeldByOther) =>
       /\ last.err = NodeLocked(last.pre)
       /\ reservation[last.node] = last.pre
  /\ (last.op = "release" /\ last.node \in Nodes /\ last.pre = None) =>
       /\ last.err = NodeNotLocked
       /\ reservation[last.node] = None

C4_Witness == last.op = "release" /\ HeldByOther

\* C5: a release that directly follows the successful release of the same
\* node by the same tag fails with NodeNotLocked.
C5_ReleaseNotIdempotent ==
  (last.op = "release" /\ last.after) =>
    /\ last.err = NodeNotLocked
    /\ reservation[last.node] = None

C5_Witness == last.op = "release" /\ last.after

\* The last direct call was a reserve by the tag that already held the node.
ReserveByHolder == last.op = "reserve" /\ last.pre = last.tag

\* C6, as stated: a reserve by the tag that already holds the node succeeds
\* and the node stays reserved by it.
C6_ReserveReentrant ==
  ReserveByHolder =>
    /\ last.err = NoError
    /\ reservation[last.node] = last.tag

\* C6, amended: a reserve by the tag that already holds the node fails with
\* NodeLocked naming that tag, and the node stays reserved by it.
C6_ReserveByHolderIsLocked ==
  ReserveByHolder =>
    /\ last.err = NodeLocked(last.tag)
    /\ reservation[last.node] = last.tag

C6_Witness == ReserveByHolder

\* C7: a reserve or release for an id that matches no node fails with
\* NodeNotFound and changes no reservation.
C7_MissingNode ==
  /\ []((last.op # "none" /\ last.node \notin Nodes) =>
          last.err = NodeNotFound)
  /\ [][(last'.op # "none" /\ last'.node \notin Nodes) =>
          reservation' = reservation]_vars

C7_Witness ==
  /\ last.op = "release" /\ last.node \notin Nodes
  /\ \E n \in Nodes : reservation[n] # None

\* C8: once a task's scope has been left, by whichever path, no node is
\* reserved by that task's tag.
C8_ScopeExitReleases ==
  \A t \in Tasks :
    task[t].pc \in {"exited", "idle"} =>
      \A n \in Nodes : reservation[n] # TagOf(t)

C8_Witness ==
  \E t \in Tasks :
    /\ task[t].pc = "exited" /\ task[t].exit = "error"
    /\ ~task[t].shared /\ task[t].took

\* C9: when an exclusive acquire reports failure nothing is reserved by the
\* task's tag, and the error reported is the one the failing reserve met:
\* NodeLocked naming the node's holder at that moment, or NodeNotFound.
C9_AcquireAllOrNothing ==
  /\ [](\A t \in Tasks :
          task[t].pc = "failed" =>
            \A n \in Nodes : reservation[n] # TagOf(t))
  /\ [][\A t \in Tasks :
          /\ (task[t].pc = "acquiring" /\
              task'[t].pc \in {"rollback", "failed"}) =>
               task'[t].err =
                 IF Pending(t) \in Nodes
                   THEN NodeLocked(reservation[Pending(t)])
                   ELSE NodeNotFound
          /\ (task[t].pc = "rollback" /\ task'[t].pc \in {"rollback", "failed"})
               => task'[t].err = task[t].err]_vars

C9_Witness ==
  \E t \in Tasks :
    /\ task[t].pc = "failed" /\ task[t].took
    /\ task[t].err.type = "NodeLocked"
    /\ \E n \in Nodes : reservation[n] = task[t].err.host

\* Task t runs, in a shared scope, an entry point that commands the backend
\* or writes the node.
SharedMutatingCall(t) ==
  /\ call[t].pc # "none"
  /\ task[t].shared
  /\ <<node[call[t].node].driver, call[t].ep>> \in MutatingEntryPoints
  /\ call[t].ep = "vendor_passthru" => call[t].args[1] \in VENDOR_PASSTHRU_METHODS

\* C10: every mutating driver entry point (set_power_state, reboot,
\* set_boot_device, and the vendor-passthru methods set_node_vlan_id and
\* attach_volume) invoked on a shared task fails at once with an exclusive-lock
\* error, having made no backend call and saved nothing on the node.
C10_SharedTaskFailsFast ==
  \A t \in Tasks :
    SharedMutatingCall(t) =>
      /\ call[t].pc = "done"
      /\ call[t].result = "ExclusiveLockRequired"
      /\ call[t].issued = <<>>
      /\ ~call[t].saved

\* A shared acquire by t happens in this step.
SharedAcquireStep(t) ==
  task[t].pc = "idle" /\ task'[t].pc # "idle" /\ task'[t].shared

\* C11: a shared acquire takes no reservation: the step leaves every node's
\* reservation as it was and ends with the task held, whoever has reserved
\* the nodes; and as long as a task is shared it has reserved nothing.
C11_SharedAcquireTakesNothing ==
  /\ [][\A t \in Tasks :
          SharedAcquireStep(t) =>
            /\ reservation' = reservation
            /\ task'[t].pc = "held"
            /\ task'[t].err = NoError]_vars
  /\ [](\A t \in Tasks :
          task[t].shared =>
            /\ task[t].i = 0
            /\ task[t].pc \in {"held", "exited"}
            /\ \A n \in Nodes : reservation[n] # TagOf(t))

\* A shared task is held on a node that another tag had reserved when the
\* task was acquired, and still has.
C11_Witness ==
  \E t \in Tasks :
    /\ task[t].pc = "held" /\ task[t].shared /\ task[t].seen
    /\ ReservedByOther(reservation, t, task[t].nodes)

\* An upgrade attempt by t happens in this step.
UpgradeStep(t) ==
  /\ task[t].pc = "held" /\ task[t].shared
  /\ task'[t].pc = "held" /\ task'[t] # task[t]

\* C12: the upgrade of a shared task goes through reserve: when another tag
\* has the node it fails with NodeLocked naming that tag, the task stays
\* shared and every reservation is unchanged; when the node is free the task
\* becomes its exclusive holder.
C12_UpgradeGoesThroughReserve ==
  [][\A t \in Tasks :
       UpgradeStep(t) =>
         LET n == task[t].nodes[1] IN
         IF reservation[n] # None
           THEN /\ task'[t].err = NodeLocked(reservation[n])
                /\ task'[t].shared
                /\ reservation' = reservation
           ELSE /\ reservation' = [reservation EXCEPT ![n] = TagOf(t)]
                /\ ~task'[t].shared
                /\ task'[t].i = 1]_vars

\* A shared task, acquired while nobody had its node, failed to upgrade
\* because another tag has reserved the node since.
C12_Witness ==
  \E t \in Tasks :
    /\ task[t].pc = "held" /\ task[t].shared /\ ~task[t].seen
    /\ task[t].err.type = "NodeLocked"
    /\ task[t].err.host # TagOf(t)
    /\ reservation[task[t].nodes[1]] = task[t].err.host

\* How many entries of seq are in S.
CountOf(seq, S) == Cardinality({k \in 1..Len(seq) : seq[k] \in S})

\* Task t has called set_power_state with a valid state on a SeaMicro node.
SeaMicroPowerCall(t) ==
  /\ call[t].pc # "none"
  /\ node[call[t].node].driver = "seamicro"
  /\ call[t].ep = "set_power_state"
  /\ call[t].args[1] \in {POWER_ON, POWER_OFF}

\* The commands t's power call has issued so far.
CommandsIssued(t) == CountOf(call[t].issued, {SeaMicroCommand(call[t])})

\* The loop of t's power call ended without an exception and returned ERROR:
\* no observation had reported the target state.
Exhausted(t) ==
  /\ SeaMicroPowerCall(t)
  /\ call[t].pc = "done"
  /\ call[t].result \in {"ok", "PowerStateFailure"}
  /\ call[t].state = ERROR

\* C13: when the backend never reports the target state, set_power_state
\* gives up with ERROR after exactly max_retry commands and the caller sees
\* PowerStateFailure.
C13_ExhaustionAfterMaxRetry ==
  \A t \in Tasks :
    Exhausted(t) =>
      /\ call[t].result = "PowerStateFailure"
      /\ CommandsIssued(t) = max_retry

\* The calls and answers of a power transition that observed the target
\* state after exactly k commands.
PowerLoopTrace(cmd, k) ==
  [j \in 1..(2 * k + 2) |->
     IF j = 1 THEN "get_server"
     ELSE IF j % 2 = 0 THEN "get_power_status" ELSE cmd]

\* An observation of t's power call is answered in this step.
ObservationStep(t) ==
  /\ SeaMicroPowerCall(t)
  /\ call[t].pc \notin {"none", "done"}
  /\ Head(call[t].k) = "get_power_status"
  /\ call'[t] # call[t]

\* C14: when the backend reports the target state after exactly k commands,
\* k <= max_retry, set_power_state succeeds at that observation, having issued
\* exactly those k commands, one after each earlier observation.
C14_SuccessAfterKCommands ==
  /\ [][\A t \in Tasks :
          (ObservationStep(t) /\ call'[t].state = SeaMicroTarget(call[t])
             /\ CommandsIssued(t) <= max_retry) =>
            /\ call'[t].pc = "done"
            /\ call'[t].result = "ok"
            /\ call'[t].issued =
                 PowerLoopTrace(SeaMicroCommand(call[t]), CommandsIssued(t))]_vars
  /\ [](\A t \in Tasks :
          (SeaMicroPowerCall(t) /\ call[t].pc = "done" /\ call[t].result = "ok") =>
            /\ call[t].state = SeaMicroTarget(call[t])
            /\ call[t].issued =
                 PowerLoopTrace(SeaMicroCommand(call[t]), CommandsIssued(t)))

\* A power call succeeded at the observation that followed its max_retry-th
\* command.
C14_Witness ==
  \E t \in Tasks :
    /\ SeaMicroPowerCall(t) /\ call[t].pc = "done" /\ call[t].result = "ok"
    /\ CommandsIssued(t) = max_retry

\* Task t, in an exclusive scope, has called set_power_state with a state
\* that is neither POWER_ON nor POWER_OFF.
BadStateCall(t) ==
  /\ call[t].pc # "none"
  /\ ~task[t].shared
  /\ call[t].ep = "set_power_state"
  /\ call[t].args[1] \notin {POWER_ON, POWER_OFF}

\* C15: in every backend, set_power_state with a state other than POWER_ON
\* or POWER_OFF fails with InvalidParameterValue and makes no backend call:
\* no connection, no observation, no command.
C15_BadStateMakesNoBackendCall ==
  \A t \in Tasks :
    BadStateCall(t) =>
      /\ call[t].pc = "done"
      /\ call[t].result = "InvalidParameterValue"
      /\ call[t].issued = <<>>

\* Task t runs a power transition: set_power_state to a valid state, or
\* reboot.
PowerTransition(t) ==
  /\ call[t].pc # "none"
  /\ \/ call[t].ep = "reboot"
     \/ call[t].ep = "set_power_state" /\ call[t].args[1] \in {POWER_ON, POWER_OFF}

\* The last backend call of t was a command, and its transport failed.
CommandFailed(t) ==
  /\ call[t].issued # <<>>
  /\ call[t].issued[Len(call[t].issued)] \in Commands
  /\ call[t].answer \in {"ClientException", "SSHCommandFailed"}

\* C16: in every backend, the transport failure of one command of a power
\* transition does not end the transition and is not raised to the caller.
C16_CommandFailureAbsorbed ==
  \A t \in Tasks :
    (PowerTransition(t) /\ CommandFailed(t)) =>
      /\ call[t].pc # "done"
      /\ call[t].result = ""

\* Task t runs a SeaMicro power transition whose loop has made an observation.
InSeaMicroLoop(t) ==
  /\ PowerTransition(t)
  /\ node[call[t].node].driver = "seamicro"
  /\ CountOf(call[t].issued, {"get_power_status"}) > 0

\* An observation of t's SeaMicro power transition is answered in this step.
LoopObservationStep(t) ==
  /\ PowerTransition(t)
  /\ node[call[t].node].driver = "seamicro"
  /\ call[t].pc \notin {"none", "done"}
  /\ Head(call[t].k) = "get_power_status"
  /\ call'[t] # call[t]

\* The error _get_power_status raises for a client error.
ObservationError(answer) ==
  IF answer = "NotFound" THEN "NodeNotFound" ELSE "ServiceUnavailable"

\* C17: a SeaMicro convergence loop ends in success, in exhaustion (seen by
\* the caller as PowerStateFailure), or in a client error on an observation:
\* NodeNotFound when the server is missing, ServiceUnavailable otherwise.  The
\* error is raised by the observation that met it, after which the call makes
\* no backend call.
C17_LoopOutcomes ==
  /\ [][\A t \in Tasks :
          (LoopObservationStep(t)
             /\ call'[t].answer \in {"NotFound", "ClientException"}) =>
            /\ call'[t].pc = "done"
            /\ call'[t].result = ObservationError(call'[t].answer)
            /\ call'[t].issued = Append(call[t].issued, "get_power_status")]_vars
  /\ [](\A t \in Tasks :
          (InSeaMicroLoop(t) /\ call[t].pc = "done") =>
            /\ call[t].result \in {"ok", "PowerStateFailure", "NodeNotFound",
                                   "ServiceUnavailable"}
            /\ call[t].result = "PowerStateFailure" =>
                 (call[t].state = ERROR /\ call[t].retries > max_retry)
            /\ call[t].result \in {"NodeNotFound", "ServiceUnavailable"} =>
                 /\ call[t].issued[Len(call[t].issued)] = "get_power_status"
                 /\ call[t].result = ObservationError(call[t].answer)
            /\ ~ENABLED BackendStep(t, "ok"))

\* A loop that had already issued a command met an unreachable backend on
\* its next observation and raised ServiceUnavailable.
C17_Witness ==
  \E t \in Tasks :
    /\ InSeaMicroLoop(t) /\ call[t].pc = "done"
    /\ call[t].result = "ServiceUnavailable"
    /\ CountOf(call[t].issued, {"power_on", "power_off", "reset"}) > 0

\* The required keys that the driver_info of t's node does not set.
MissingKeys(t) ==
  {key \in RequiredProperties(node[call[t].node].driver) :
     key \notin node[call[t].node].driver_info}

\* Task t has called validate on a node whose driver_info lacks a required key.
ValidateOfIncomplete(t) ==
  /\ call[t].pc # "none"
  /\ call[t].ep = "validate"
  /\ MissingKeys(t) # {}

\* validate failed with InvalidParameterValue naming every missing key and no
\* other key.
NamesMissingKeys(t) ==
  /\ call[t].pc = "done"
  /\ call[t].result = "InvalidParameterValue"
  /\ call[t].issued = <<>>
  /\ \A key \in RequiredProperties(node[call[t].node].driver) :
       key \in call[t].missing <=> key \notin node[call[t].node].driver_info

CallOnIncomplete(t) ==
  /\ call[t].pc # "none"
  /\ call[t].ep \in {"set_power_state", "reboot", "set_boot_device",
                     "get_power_state"}
  /\ ~require_exclusive_lock(t, node[call[t].node].driver, call[t].ep)
  /\ MissingKeys(t) # {}

\* C20: set_power_state, reboot, set_boot_device and get_power_state on a
\* node whose driver_info misses a required key raise InvalidParameterValue
\* with no backend call made: no client or connection, no observation, no
\* command.
C20_ConfigurationErrorsFirst ==
  \A t \in Tasks :
    CallOnIncomplete(t) =>
      /\ call[t].pc = "done"
      /\ call[t].result = "InvalidParameterValue"
      /\ call[t].issued = <<>>

\* reboot of an SSH node that lacks a required key has failed.
C20_Witness ==
  \E t \in Tasks :
    /\ CallOnIncomplete(t)
    /\ node[call[t].node].driver = "ssh" /\ call[t].ep = "reboot"
    /\ call[t].pc = "done"

\* Task t is inside a power transition that the lock guard let through.
RunsPower(t) ==
  /\ PowerTransition(t)
  /\ call[t].result # "ExclusiveLockRequired"

\* C18: a power transition runs with its node reserved by its own task, from
\* before its first backend call until after it has returned, so no two power
\* transitions are under way on the same node at any time.
C18_PowerOperationsSerialized ==
  /\ \A t \in Tasks :
       RunsPower(t) =>
         /\ task[t].pc = "held" /\ ~task[t].shared
         /\ reservation[call[t].node] = TagOf(t)
  /\ \A t, u \in Tasks :
       (t # u /\ RunsPower(t) /\ RunsPower(u)) => call[t].node # call[u].node

\* One task is between two commands of a power transition while another
\* task, shared on the same node, has been refused its own.
C18_Witness ==
  \E t, u \in Tasks :
    /\ t # u
    /\ RunsPower(t) /\ call[t].pc # "done"
    /\ CountOf(call[t].issued, Commands) > 0
    /\ task[u].pc = "held" /\ task[u].nodes = <<call[t].node>>
    /\ call[u].result = "ExclusiveLockRequired"

\* Task t has called vendor_passthru, or the validate that goes before it,
\* past the lock guard.
VendorCall(t) ==
  /\ call[t].pc # "none"
  /\ call[t].ep \in {"vendor_passthru", "vendor_validate"}
  /\ call[t].result # "ExclusiveLockRequired"

\* The backend operations of each vendor method's handler.
HandlerOps(method) ==
  IF method = "set_node_vlan_id"
    THEN {"get_server", "refresh", "unset_untagged_vlan", "set_untagged_vlan",
          "save"}
  ELSE {"pools.list", "volumes.create", "volumes.get", "get_server",
        "detach_volume", "refresh", "attach_volume", "save"}

\* C21 as stated: vendor-passthru with a method name outside the allow-list
\* fails with UnsupportedOperation, and with a name on the allow-list runs
\* the handler of that name and no other.
C21_UnknownMethodUnsupported ==
  \A t \in Tasks :
    VendorCall(t) =>
      IF call[t].args[1] \notin VENDOR_PASSTHRU_METHODS
        THEN call[t].pc = "done" /\ call[t].result = "UnsupportedOperation"
      ELSE \A i \in 1..Len(call[t].issued) :
             call[t].issued[i] \in HandlerOps(call[t].args[1])

\* A step in which a conductor operation was called.
ConductorCallStep ==
  /\ now' = now
  /\ last'.op \in {"register_conductor", "touch_conductor",
                    "unregister_conductor"}
  /\ <<conductor, last>>' # <<conductor, last>>

\* C22: register_conductor of a hostname that has a record fails with
\* ConductorAlreadyRegistered and leaves that record, its drivers and its
\* heartbeat, as it was; touch_conductor and unregister_conductor of a
\* hostname without a record fail with ConductorNotFound; and none of the
\* failing calls changes the table.
C22_ConductorHostnamesUnique ==
  [][ConductorCallStep =>
       LET h == last'.tag
           registered == conductor[h] # NoConductor IN
         /\ (last'.op = "register_conductor" /\ registered) =>
              /\ last'.err = ConductorAlreadyRegistered
              /\ conductor' = conductor
         /\ (last'.op # "register_conductor" /\ ~registered) =>
              /\ last'.err = ConductorNotFound
              /\ conductor' = conductor
         /\ \A g \in Hosts \ {h} : conductor'[g] = conductor[g]]_vars

\* A second registration of a hostname was refused some time after the
\* first, whose record still has its own drivers and heartbeat.
C22_Witness ==
  /\ last.op = "register_conductor"
  /\ last.err = ConductorAlreadyRegistered
  /\ conductor[last.tag].drivers = {"ssh"}
  /\ conductor[last.tag].updated_at < last.pre

\* The intervals get_active_driver_dict is asked with.
Intervals == {0, 30, 60, 61}

\* The most recent call checked host h in: it registered h or touched it.
CheckedIn(h) ==
  /\ last.op \in {"register_conductor", "touch_conductor"}
  /\ last.err = NoError
  /\ last.tag = h

\* C23: get_active_driver_dict(interval) holds a conductor, under each of
\* its drivers, exactly when its last check-in is no more than `interval`
\* seconds old: with interval 60 a check-in 60 seconds old still counts and
\* one 61 or more seconds old does not.
C23_ActiveWithinInterval ==
  \A h \in Hosts, i \in Intervals :
    CheckedIn(h) =>
      \A d \in conductor[h].drivers :
        h \in get_active_driver_dict(conductor, i, now)[d]
          <=> now - last.pre <= i

\* 61 seconds after it registered a conductor is gone from the map for
\* interval 60, where one that was touched 30 seconds ago is under its driver.
C23_Witness ==
  \E h, g \in Hosts :
    /\ CheckedIn(h) /\ last.op = "touch_conductor" /\ now - last.pre = 30
    /\ h \in get_active_driver_dict(conductor, 60, now)["ssh"]
    /\ "ssh" \in conductor[g].drivers
    /\ now - conductor[g].updated_at = 61
    /\ g \notin get_active_driver_dict(conductor, 60, now)["ssh"]

\* Host h has a record whose heartbeat is no more than i seconds old.
Fresh(h, i) ==
  /\ conductor[h] # NoConductor
  /\ now - conductor[h].updated_at <= i

\* C24: whatever was registered, touched and unregistered so far,
\* get_active_driver_dict(interval) maps every driver name to exactly the
\* registered hosts that support it and are fresh; a host that is stale or
\* has just been unregistered is under none of its drivers; and a driver
\* that only stale conductors offer has no host.
C24_ActiveDriverMapExact ==
  \A i \in Intervals :
    LET active == get_active_driver_dict(conductor, i, now) IN
      /\ \A d \in DriverNames :
           active[d] = {h \in Hosts : Fresh(h, i) /\ d \in conductor[h].drivers}
      /\ \A h \in Hosts :
           ~Fresh(h, i) => \A d \in DriverNames : h \notin active[d]
      /\ (last.op = "unregister_conductor" /\ last.err = NoError) =>
           \A d \in DriverNames : last.tag \notin active[d]
      /\ \A d \in DriverNames :
           (\A h \in Hosts : d \in conductor[h].drivers => ~Fresh(h, i)) =>
             active[d] = {}

\* Two conductors offer ssh, one of them stale, and the only conductor that
\* offers seamicro is the stale one: ssh has one live host, seamicro none.
C24_Witness ==
  \E h, g \in Hosts :
    /\ conductor[h].drivers = {"ssh"} /\ Fresh(h, 60)
    /\ conductor[g].drivers = {"seamicro", "ssh"}
    /\ conductor[g] # NoConductor /\ ~Fresh(g, 60)
    /\ get_active_driver_dict(conductor, 60, now) =
         [d \in DriverNames |-> IF d = "ssh" THEN {h} ELSE {}]

\* Task t has called reboot.
RebootCall(t) == call[t].pc # "none" /\ call[t].ep = "reboot"

\* The commands among the backend operations of a call, in order.
IsCommand(op) == op \in Commands

CommandsOf(seq) == SelectSeq(seq, IsCommand)

\* C25: a reboot keeps to one strategy.  The commands of a SeaMicro reboot
\* are resets and nothing else; those of an SSH reboot are stop commands
\* followed by at most one start command, which is the last command of the
\* call, and never a reset or reboot command.
C25_RebootOneStrategy ==
  \A t \in Tasks :
    RebootCall(t) =>
      LET cs == CommandsOf(call[t].issued) IN
        IF node[call[t].node].driver = "seamicro"
          THEN \A i \in 1..Len(cs) : cs[i] = "reset"
        ELSE \A i \in 1..Len(cs) :
               /\ cs[i] \in {"stop_cmd", "start_cmd"}
               /\ cs[i] = "start_cmd" => i = Len(cs)

\* An SSH reboot of a running node has stopped it, started it and returned.
C25_Witness ==
  \E t \in Tasks :
    /\ RebootCall(t)
    /\ node[call[t].node].driver = "ssh"
    /\ call[t].pc = "done" /\ call[t].result = "ok"
    /\ CommandsOf(call[t].issued) = <<"stop_cmd", "start_cmd">>

\* Task t has called set_boot_device past the lock guard.
BootCall(t) ==
  /\ call[t].pc # "none"
  /\ call[t].ep = "set_boot_device"
  /\ call[t].result # "ExclusiveLockRequired"

\* C26: set_boot_device with a device that get_supported_boot_devices()
\* does not list fails with InvalidParameterValue before any backend call;
\* with a listed device the only command it ever sends is set_boot_order for
\* the mapped device (hd0 for disk, pxe for pxe), sent once when the call
\* returns without error and never more than once.
C26_SetBootDevice ==
  \A t \in Tasks :
    BootCall(t) =>
      LET device == call[t].args[1]
          cs == CommandsOf(call[t].issued) IN
        IF device \notin SupportedBootDevices
          THEN /\ call[t].pc = "done"
               /\ call[t].result = "InvalidParameterValue"
               /\ call[t].issued = <<>>
        ELSE /\ Len(cs) <= 1
             /\ \A i \in 1..Len(cs) :
                  /\ device = "disk" => cs[i] = "set_boot_order hd0"
                  /\ device = "pxe" => cs[i] = "set_boot_order pxe"
             /\ (call[t].pc = "done" /\ call[t].result = "ok") => Len(cs) = 1

\* set_boot_device(disk) has returned, having sent set_boot_order(hd0).
C26_Witness ==
  \E t \in Tasks :
    /\ BootCall(t)
    /\ call[t].args[1] = "disk"
    /\ call[t].pc = "done" /\ call[t].result = "ok"
    /\ call[t].issued = <<"get_server", "set_boot_order hd0">>

\* The step is a call of reserve_node or release_node.
ReserveOrReleaseStep ==
  \E tag \in Tags, node_id \in StoreNodeIds :
    StoreReserve(tag, node_id) \/ StoreRelease(tag, node_id)

SeaMicroTransition(t) ==
  PowerTransition(t) /\ node[call[t].node].driver = "seamicro"

\* C29: a SeaMicro power transition, whose backend calls all return, ends,
\* whatever is observed and whichever commands fail; and it ends within
\* max_retry + 2 observations, having retried no more than max_retry + 1
\* times.
C29_LoopTerminates ==
  /\ [](\A t \in Tasks :
          SeaMicroTransition(t) =>
            /\ CountOf(call[t].issued, {"get_power_status"}) <= max_retry + 2
            /\ call[t].retries <= max_retry + 1)
  /\ \A t \in Tasks : SeaMicroTransition(t) ~> (call[t].pc \in {"done", "none"})

\* A reboot gave up after max_retry + 2 observations off the target, with
\* failed commands among its resets.
C29_Witness ==
  \E t \in Tasks :
    /\ SeaMicroTransition(t)
    /\ call[t].ep = "reboot"
    /\ call[t].pc = "done" /\ call[t].result = "PowerStateFailure"
    /\ CountOf(call[t].issued, {"get_power_status"}) = max_retry + 2
    /\ call[t].answer = POWER_OFF

\* Task t has called set_power_state for POWER_ON or POWER_OFF.
SetPowerCall(t) ==
  /\ call[t].pc # "none"
  /\ call[t].ep = "set_power_state"
  /\ call[t].args[1] \in {POWER_ON, POWER_OFF}

\* The last backend operation of t's call was an observation.
EndedOnObservation(t) ==
  /\ call[t].issued # <<>>
  /\ call[t].issued[Len(call[t].issued)] = "get_power_status"

\* C30: set_power_state(task, pstate) returns without error only when the
\* last observation of the transition was pstate; when the transition came
\* back with anything else it raises PowerStateFailure; and once it has
\* raised PowerStateFailure the call does nothing more: no backend call
\* follows until the caller makes a new call.
C30_PowerStateFailureTerminal ==
  /\ [](\A t \in Tasks :
          (SetPowerCall(t) /\ call[t].pc = "done") =>
            /\ call[t].result = "ok" =>
                 /\ EndedOnObservation(t)
                 /\ call[t].answer = call[t].args[1]
                 /\ call[t].state = call[t].args[1]
            /\ call[t].result = "PowerStateFailure" =>
                 /\ EndedOnObservation(t)
                 /\ call[t].answer # call[t].args[1]
            /\ (EndedOnObservation(t)
                  /\ call[t].answer \in {POWER_ON, POWER_OFF, ERROR}) =>
                 call[t].result \in {"ok", "PowerStateFailure"})
  /\ [][\A t \in Tasks :
          (SetPowerCall(t) /\ call[t].result = "PowerStateFailure") =>
            call'[t] \in {call[t], NoDriverCall}]_vars

\* An SSH power-off ran its stop command, saw the node still on and raised
\* PowerStateFailure.
C30_Witness ==
  \E t \in Tasks :
    /\ SetPowerCall(t)
    /\ node[call[t].node].driver = "ssh"
    /\ call[t].args[1] = POWER_OFF
    /\ call[t].pc = "done" /\ call[t].result = "PowerStateFailure"
    /\ call[t].answer = POWER_ON
    /\ CommandsOf(call[t].issued) = <<"stop_cmd">>

\* The first observation of t's SeaMicro power call has just been answered.
FirstObservationMade(t) ==
  /\ SeaMicroPowerCall(t)
  /\ call[t].issued = <<"get_server", "get_power_status">>

\* C31: the SeaMicro loop observes before it commands.  No power_on or
\* power_off command is sent before the first observation, and when that
\* observation is the target state the call returns success with no command
\* sent at all.
C31_ObserveBeforeCommand ==
  \A t \in Tasks :
    SeaMicroPowerCall(t) =>
      /\ \A i \in 1..Len(call[t].issued) :
           call[t].issued[i] \in {"power_on", "power_off"} =>
             \E j \in 1..(i - 1) : call[t].issued[j] = "get_power_status"
      /\ (FirstObservationMade(t) /\ call[t].answer = call[t].args[1]) =>
           /\ call[t].pc = "done"
           /\ call[t].result = "ok"
           /\ call[t].state = call[t].args[1]
           /\ CommandsOf(call[t].issued) = <<>>

\* A power-off of a node first seen off has returned without a command.
C31_Witness ==
  \E t \in Tasks :
    /\ FirstObservationMade(t)
    /\ call[t].args[1] = POWER_OFF /\ call[t].answer = POWER_OFF
    /\ call[t].pc = "done" /\ call[t].result = "ok"

\* Task t has called set_power_state(pstate) of an SSH node.
SSHSetPower(t, pstate) ==
  /\ SetPowerCall(t)
  /\ node[call[t].node].driver = "ssh"
  /\ call[t].args[1] = pstate

\* C32: SSH set_power_state(POWER_ON).  When _power_on finds the node off,
\* what is left to run is the start command alone.  When it finds the node
\* on it goes through _power_off before the start command, and when
\* _power_off finds the node on as well, what is left to run is the stop
\* command and then the start command: a forced power cycle.  Whatever is
\* observed, a stop command is never sent after the start command.
C32_PowerOnCyclesRunningNode ==
  /\ [](\A t \in Tasks :
          SSHSetPower(t, POWER_ON) =>
            /\ (call[t].issued = <<"connect", "get_power_status">>
                  /\ call[t].answer = POWER_OFF) =>
                 call[t].k = <<"on.name", "start_cmd", "on.status2">>
            /\ (call[t].issued = <<"connect", "get_power_status">>
                  /\ call[t].answer = POWER_ON) =>
                 call[t].k = <<"off.status1", "off.name", "stop_cmd",
                               "off.status2", "on.name", "start_cmd",
                               "on.status2">>
            /\ CommandsOf(call[t].issued) \in
                 {<<>>, <<"start_cmd">>, <<"stop_cmd">>,
                  <<"stop_cmd", "start_cmd">>})
  /\ [][\A t \in Tasks :
          (/\ SSHSetPower(t, POWER_ON)
           /\ call[t].issued = <<"connect", "get_power_status">>
           /\ call[t].answer = POWER_ON
           /\ call'[t].issued =
                <<"connect", "get_power_status", "get_power_status">>
           /\ call'[t].answer = POWER_ON) =>
            call'[t].k = <<"off.name", "stop_cmd", "off.status2",
                           "on.name", "start_cmd", "on.status2">>]_vars

\* A power-on of a running node has stopped it, started it and succeeded.
C32_Witness ==
  \E t \in Tasks :
    /\ SSHSetPower(t, POWER_ON)
    /\ call[t].pc = "done" /\ call[t].result = "ok"
    /\ call[t].issued =
         <<"connect", "get_power_status", "get_power_status",
           "get_hosts_name", "stop_cmd", "get_power_status",
           "get_hosts_name", "start_cmd", "get_power_status">>

\* C33: SSH set_power_state(POWER_OFF).  When the node is observed off the
\* call returns success with no command sent.  When it is observed on, the
\* stop command is sent once and one more observation is made: the call
\* succeeds when that observation is POWER_OFF and raises PowerStateFailure
\* otherwise.  No second stop command and no start command is ever sent.
C33_PowerOffStopsOnce ==
  \A t \in Tasks :
    SSHSetPower(t, POWER_OFF) =>
      /\ (call[t].issued = <<"connect", "get_power_status">>
            /\ call[t].answer = POWER_OFF) =>
           /\ call[t].pc = "done" /\ call[t].result = "ok"
      /\ (call[t].issued = <<"connect", "get_power_status">>
            /\ call[t].answer = POWER_ON) =>
           call[t].k = <<"off.name", "stop_cmd", "off.status2">>
      /\ CommandsOf(call[t].issued) \in {<<>>, <<"stop_cmd">>}
      /\ (CommandsOf(call[t].issued) = <<"stop_cmd">>
            /\ EndedOnObservation(t)
            /\ call[t].answer \in {POWER_ON, POWER_OFF}) =>
           /\ call[t].pc = "done"
           /\ call[t].result =
                IF call[t].answer = POWER_OFF THEN "ok" ELSE "PowerStateFailure"
      /\ (call[t].pc = "done" /\ call[t].result = "ok") =>
           EndedOnObservation(t) /\ call[t].answer = POWER_OFF

\* A power-off of a running node sent one stop command, saw the node off and
\* returned.
C33_Witness ==
  \E t \in Tasks :
    /\ SSHSetPower(t, POWER_OFF)
    /\ call[t].pc = "done" /\ call[t].result = "ok"
    /\ call[t].issued = <<"connect", "get_power_status", "get_hosts_name",
                          "stop_cmd", "get_power_status">>

\* Task t has called reboot of an SSH node.
SSHReboot(t) == RebootCall(t) /\ node[call[t].node].driver = "ssh"

\* C34: SSH reboot.  A node that reboot observes on goes through _power_off
\* before _power_on, and when _power_off sees it on as well the stop command
\* is what runs before the start command.  The start command is sent at
\* most once, as the last command, and exactly once in a call that returns or
\* raises PowerStateFailure; the call succeeds when the observation after it
\* is POWER_ON and raises PowerStateFailure when it is not.  A power-off that
\* leaves the node on does not end the call: _power_on runs, and on seeing
\* the node on makes a second stop attempt.
C34_RebootStopsThenStarts ==
  /\ [](\A t \in Tasks :
          SSHReboot(t) =>
            LET cs == CommandsOf(call[t].issued)
                n == Len(call[t].issued) IN
              /\ \A i \in 1..Len(cs) : cs[i] = "start_cmd" => i = Len(cs)
              /\ (call[t].issued = <<"connect", "get_power_status">>
                    /\ call[t].answer = POWER_ON) =>
                   call[t].k = PowerOffScript \o PowerOnScript
              /\ (call[t].pc = "done"
                    /\ call[t].result \in {"ok", "PowerStateFailure"}) =>
                   /\ EndedOnObservation(t)
                   /\ call[t].issued[n - 1] = "start_cmd"
                   /\ call[t].result = "ok" <=> call[t].answer = POWER_ON)
  /\ [][\A t \in Tasks :
          SSHReboot(t) =>
            /\ (/\ call[t].issued = <<"connect", "get_power_status">>
                 /\ call[t].answer = POWER_ON
                 /\ call'[t].issued =
                      <<"connect", "get_power_status", "get_power_status">>
                 /\ call'[t].answer = POWER_ON) =>
                  call'[t].k = <<"off.name", "stop_cmd", "off.status2",
                                 "on.status1", "on.name", "start_cmd",
                                 "on.status2">>
            /\ (/\ call[t].k = <<"off.status2">> \o PowerOnScript
                 /\ call'[t].issued # call[t].issued
                 /\ call'[t].answer = POWER_ON) =>
                  /\ call'[t].pc # "done"
                  /\ call'[t].state = ERROR
                  /\ call'[t].k = PowerOnScript
            /\ (/\ call[t].k = PowerOnScript
                 /\ call[t].state = ERROR
                 /\ call'[t].issued # call[t].issued
                 /\ call'[t].answer = POWER_ON) =>
                  call'[t].k = PowerOffScript \o Tail(PowerOnScript)]_vars

\* A reboot whose first stop command left the node on stopped it again
\* inside _power_on, started it and succeeded.
C34_Witness ==
  \E t \in Tasks :
    /\ SSHReboot(t)
    /\ call[t].pc = "done" /\ call[t].result = "ok"
    /\ CommandsOf(call[t].issued) = <<"stop_cmd", "stop_cmd", "start_cmd">>

\* Task t has called reboot of a SeaMicro node.
SeaMicroReboot(t) == RebootCall(t) /\ node[call[t].node].driver = "seamicro"

\* C35: SeaMicro reboot sends a reset before it observes, so it never
\* reports success with no reset sent; it reports success as soon as an
\* observation is POWER_ON; and it sends no more than max_retry + 2 resets.
C35_RebootResetsFirst ==
  \A t \in Tasks :
    SeaMicroReboot(t) =>
      LET resets == CountOf(call[t].issued, {"reset"}) IN
        /\ \A i \in 1..Len(call[t].issued) :
             call[t].issued[i] = "get_power_status" =>
               \E j \in 1..(i - 1) : call[t].issued[j] = "reset"
        /\ (call[t].pc = "done" /\ call[t].result = "ok") => resets >= 1
        /\ (EndedOnObservation(t) /\ call[t].answer = POWER_ON) =>
             call[t].pc = "done" /\ call[t].result = "ok"
        /\ resets <= max_retry + 2

\* A reboot of a node that was never seen off succeeded after its first
\* reset.
C35_Witness ==
  \E t \in Tasks :
    /\ SeaMicroReboot(t)
    /\ call[t].issued = <<"get_server", "reset", "get_power_status">>
    /\ call[t].answer = POWER_ON
    /\ call[t].pc = "done" /\ call[t].result = "ok"

\* The convergence loop of t's SeaMicro call has returned a state.
SeaMicroReturned(t) ==
  /\ SeaMicroTransition(t)
  /\ call[t].pc = "done"
  /\ call[t].result \in {"ok", "PowerStateFailure"}

\* C36: a SeaMicro convergence call that returns, returns the target state
\* or ERROR and no other state, and it returns ERROR only when the retry
\* counter has gone past max_retry.
C36_ReturnsTargetOrError ==
  \A t \in Tasks :
    SeaMicroReturned(t) =>
      /\ call[t].state \in {SeaMicroTarget(call[t]), ERROR}
      /\ call[t].state = ERROR => call[t].retries > max_retry
      /\ call[t].state = SeaMicroTarget(call[t]) <=> call[t].result = "ok"

\* A power-on gave up on a node it last saw off and returned ERROR.
C36_Witness ==
  \E t \in Tasks :
    /\ SeaMicroReturned(t)
    /\ call[t].ep = "set_power_state" /\ call[t].args[1] = POWER_ON
    /\ call[t].answer = POWER_OFF
    /\ call[t].state = ERROR
    /\ call[t].retries = max_retry + 1

\* Task t runs a power transition of an SSH node.
SSHTransition(t) ==
  PowerTransition(t) /\ node[call[t].node].driver = "ssh"

\* C37: the SSH backend attempts each command once.  A transition sends the
\* start command at most once and the stop command at most once for each
\* _power_off it goes through (one in set_power_state, two in reboot); an
\* SSH command that fails, be it an observation, a name lookup or a start or
\* stop command, ends the call with SSHCommandFailed; and a call that ends
\* on an observation off the target, right after its command, ends with ERROR
\* and PowerStateFailure.
C37_SingleAttempt ==
  \A t \in Tasks :
    SSHTransition(t) =>
      LET n == Len(call[t].issued) IN
        /\ CountOf(call[t].issued, {"start_cmd"}) <= 1
        /\ CountOf(call[t].issued, {"stop_cmd"}) <=
             (IF call[t].ep = "reboot" THEN 2 ELSE 1)
        /\ call[t].answer = "SSHCommandFailed" =>
             call[t].pc = "done" /\ call[t].result = "SSHCommandFailed"
        /\ (/\ call[t].pc = "done"
             /\ EndedOnObservation(t)
             /\ call[t].issued[n - 1] \in {"start_cmd", "stop_cmd"}
             /\ call[t].answer \in {POWER_ON, POWER_OFF} \ {SSHTarget(call[t])}) =>
              /\ call[t].state = ERROR
              /\ call[t].result = "PowerStateFailure"
              /\ CountOf(call[t].issued, {call[t].issued[n - 1]}) <=
                   (IF call[t].ep = "reboot" THEN 2 ELSE 1)

\* A power-on sent its start command once, saw the node still off and
\* raised PowerStateFailure.
C37_Witness ==
  \E t \in Tasks :
    /\ SSHTransition(t)
    /\ call[t].ep = "set_power_state" /\ call[t].args[1] = POWER_ON
    /\ call[t].pc = "done" /\ call[t].result = "PowerStateFailure"
    /\ call[t].state = ERROR /\ call[t].answer = POWER_OFF
    /\ CommandsOf(call[t].issued) = <<"start_cmd">>

\* A stop command failed in its transport and the call raised
\* SSHCommandFailed.
C37_CommandFailed ==
  \E t \in Tasks :
    /\ SSHTransition(t)
    /\ call[t].issued[Len(call[t].issued)] = "stop_cmd"
    /\ call[t].answer = "SSHCommandFailed"

\* Task t runs the handler of a vendor-passthru method on the allow-list.
VendorHandler(t) ==
  /\ VendorCall(t)
  /\ call[t].ep = "vendor_passthru"
  /\ call[t].args[1] \in VENDOR_PASSTHRU_METHODS

\* The backend raised a client exception at the last call of t's handler.
ClientExceptionRaised(t) ==
  /\ call[t].issued # <<>>
  /\ call[t].answer \in {"ClientException", "NotFound"}

\* C38 as stated: the vendor-passthru handlers save node.properties only
\* after every backend call succeeded; when the backend raises a client
\* exception the handler raises VendorPassthruException and node.properties
\* is not written; and attach_volume sends no attach for a volume whose pool
\* is not an ironic- pool.
C38_SaveAfterBackendSuccess ==
  \A t \in Tasks :
    VendorHandler(t) =>
      LET n == Len(call[t].issued) IN
        /\ call[t].saved =>
             /\ call[t].issued[n] = "save"
             /\ call[t].result = "ok"
        /\ ClientExceptionRaised(t) =>
             /\ call[t].pc = "done"
             /\ call[t].result = "VendorPassthruException"
             /\ ~call[t].saved
        /\ (n > 0 /\ call[t].issued[n] = "volumes.get"
               /\ call[t].answer = "other") =>
             /\ call[t].pc = "done"
             /\ call[t].result = "InvalidParameterValue"
        /\ \A i \in 1..n :
             call[t].issued[i] = "attach_volume" =>
               \E j \in 1..(i - 1) : call[t].issued[j] = "volumes.get"

\* The part of C38 that the handlers keep: the same statement with the
\* client exceptions narrowed to those raised inside the handlers' try
\* blocks, and with no more asked of the others than that nothing is saved.
C38_SaveAfterBackendSuccessInTry ==
  \A t \in Tasks :
    VendorHandler(t) =>
      LET n == Len(call[t].issued) IN
        /\ call[t].saved =>
             /\ call[t].issued[n] = "save"
             /\ call[t].result = "ok"
        /\ ClientExceptionRaised(t) =>
             /\ call[t].pc = "done"
             /\ ~call[t].saved
             /\ call[t].result =
                  (IF call[t].issued[n] \in
                        {"pools.list", "volumes.create", "volumes.get"}
                     THEN "ClientException"
                   ELSE "VendorPassthruException")
        /\ (n > 0 /\ call[t].issued[n] = "volumes.get"
               /\ call[t].answer = "other") =>
             /\ call[t].pc = "done"
             /\ call[t].result = "InvalidParameterValue"
        /\ \A i \in 1..n :
             call[t].issued[i] = "attach_volume" =>
               \E j \in 1..(i - 1) : call[t].issued[j] = "volumes.get"

====
